---- MODULE Spec2Model ----
(***************************************************************************)
(* The instrumentation passes of the unsafe-Rust benchmark toolchain       *)
(* (InstMarker, DebugInfoPreserver, UnsafeFunctionTracker,                 *)
(* UnsafeInstCounter, CpuCycleCount, ExternalCallTracker, HeapTracker,     *)
(* DynamicLineCount) as transformations of an IR module, and the pass      *)
(* manager that runs them.                                                 *)
(*                                                                         *)
(* A module is a list of functions plus its globals and constructor and    *)
(* destructor lists.  A function is a name, a declaration flag, a list of  *)
(* basic blocks and the unsafe_count.func_id attachment.  A basic block is *)
(* a list of instructions.  Names are sequences of tokens, so that         *)
(* StringRef::startswith is a real prefix test.                            *)
(***************************************************************************)
EXTENDS Integers, Sequences, FiniteSets, TLC

VARIABLES
  env,      \* value of CARGO_PRIMARY_PACKAGE in the compiler's environment
  pm,       \* how the pass manager schedules: "default" pipeline or "custom" list
  input,    \* the module as the front-end handed it over (never changes)
  mod,      \* the module being transformed
  hist,     \* the passes run so far, in order
  verdict,  \* PreservedAnalyses returned by the last pass: "all" or "none"
  snap,     \* originals and sentinels of every block as the last InstMarker run left them
  bc        \* analyzeBasicBlock's loop state (BlockCounts and inUnsafeRegion), the
            \* runs of instructions scanned and the arguments of the call emitted

vars == <<env, pm, input, mod, hist, verdict, snap, bc>>

(***************************************************************************)
(* Bounds of the model.                                                    *)
(***************************************************************************)
MaxLen == 2          \* non-terminator instructions in the generated block
MaxPasses == 3       \* length of a custom pass list
MaxPlanterRuns == 2  \* times InstMarker may appear in a custom pass list
MaxFuncs == 3        \* functions in a generated function layout
MaxScan == 3         \* runs of instructions scanned by analyzeBasicBlock
MaxRegionLen == 4    \* instructions in front of the terminator of a block that carries sentinels
MaxCalls == 2        \* calls in front of the terminator of a block of calls
MaxPhis == 2         \* phi instructions at the front of a block
MaxTagged == 2       \* tagged loads in a block of lines and files

(***************************************************************************)
(* Names.                                                                  *)
(***************************************************************************)
NoName == <<>>
UNSAFE_MARKER_BEGIN == "nop # marker_begin"
UNSAFE_MARKER_END == "nop # marker_end"
PROGRAM_START_FN == <<"record_", "program_start">>
START_MEASUREMENT_FN == <<"cpu_cycle_", "start_measurement">>
END_MEASUREMENT_FN == <<"cpu_cycle_", "end_measurement">>
PRINT_STATS_FN == <<"print_", "cpu_cycle_", "stats">>
CPU_CYCLE_CTOR == <<"cpu_cycle_", "ctor">>
EXTERNAL_CALL_START_FN == <<"external_call_", "start">>
EXTERNAL_CALL_END_FN == <<"external_call_", "end">>
DYN_MEM_ACCESS_FN == <<"dyn_", "mem_", "access">>
DYN_UNSAFE_MEM_ACCESS_FN == <<"dyn_", "unsafe_", "mem_", "access">>
INIT_METADATA_FN == <<"__unsafe_", "init_metadata">>
RECORD_FUNCTION_FN == <<"__unsafe_", "record_", "function">>
DUMP_STATS_FN == <<"__unsafe_", "dump_stats">>
RECORD_BLOCK_FN == <<"__unsafe_", "record_", "block">>
MODULE_INIT_FN == <<"__unsafe_", "module_init">>
METADATA_TABLE == <<"__unsafe_", "metadata_table">>
COVERAGE_ANCHOR == <<"__unsafe_", "coverage_anchor">>
REGISTER_UNSAFE_LINE_FN == <<"register_unsafe_line">>
TRACK_UNSAFE_LINE_EXECUTION_FN == <<"track_unsafe_line_execution">>
PRINT_UNSAFE_COVERAGE_STATS_FN == <<"print_unsafe_coverage_stats">>
LINES_MODULE_CTOR == <<"unsafe_lines_module_ctor">>
LINES_MODULE_DTOR == <<"unsafe_lines_module_dtor">>

\* StringRef::startswith
StartsWith(name, pre) ==
  Len(pre) <= Len(name) /\ SubSeq(name, 1, Len(pre)) = pre

(***************************************************************************)
(* Instructions.                                                           *)
(***************************************************************************)
NoId == -1
NoLoc == [present |-> FALSE, scope |-> FALSE, hasFile |-> FALSE, file |-> <<>>, line |-> 0, col |-> 0]
NoLine == [present |-> FALSE, line |-> 0, file |-> <<>>]

\* operands: a pointer value, the value an instruction returns, an integer
\* constant, a global string
Ptr(p) == [k |-> "ptr", v |-> p, s |-> <<>>]
Val(id) == [k |-> "val", v |-> id, s |-> <<>>]
Const(n) == [k |-> "const", v |-> n, s |-> <<>>]
Str(text) == [k |-> "str", v |-> 0, s |-> text]

Inst(op, tag, callee, asm, args, dl, id) ==
  [op |-> op, tag |-> tag, callee |-> callee, asm |-> asm, args |-> args,
   dl |-> dl, li |-> NoLine, id |-> id]

CallOps == {"call", "invoke", "callbr"}
TermOps == {"ret", "br", "invoke", "callbr"}
IsCallBase(I) == I.op \in CallOps
IsTerminator(I) == I.op \in TermOps
\* a CallBase whose called operand is an InlineAsm with this asm string
IsAsm(I, s) == IsCallBase(I) /\ I.asm = s
IsBeginMarker(I) == IsAsm(I, UNSAFE_MARKER_BEGIN)
IsEndMarker(I) == IsAsm(I, UNSAFE_MARKER_END)
IsSentinel(I) == IsBeginMarker(I) \/ IsEndMarker(I)

CallTo(name, args, id) == Inst("call", FALSE, name, "", args, NoLoc, id)
AsmCall(s, id) == Inst("call", FALSE, NoName, s, <<>>, NoLoc, id)
Fence(id) == Inst("fence", FALSE, NoName, "", <<>>, NoLoc, id)

\* The id of the k-th instruction a pass creates at the instruction with id a:
\* every id in the module is below base, so these are new and distinct.
Fresh(base, a, k) == base + 4 * a + k
\* ids a pass gives to the bodies of the functions it creates
Extra(base, k) == 5 * base + k
NextBase(base) == 7 * base

(***************************************************************************)
(* Blocks: every pass inserts in front of instructions and may erase some. *)
(* pre[i] is what ends up in front of instruction i, in insertion order.   *)
(***************************************************************************)
RECURSIVE SpliceFrom(_, _, _, _)
SpliceFrom(bb, pre, keep, i) ==
  IF i > Len(bb) THEN <<>>
  ELSE pre[i] \o (IF keep[i] THEN <<bb[i]>> ELSE <<>>) \o SpliceFrom(bb, pre, keep, i + 1)

Splice(bb, pre, keep) == SpliceFrom(bb, pre, keep, 1)
KeepAll(bb) == [i \in 1..Len(bb) |-> TRUE]

MinOf(S) == CHOOSE x \in S : \A y \in S : x <= y
MaxOf(S) == CHOOSE x \in S : \A y \in S : x >= y

(***************************************************************************)
(* Functions and modules.                                                  *)
(***************************************************************************)
Func(name, decl, blocks) == [name |-> name, decl |-> decl, blocks |-> blocks, fid |-> NoId]
Declaration(name) == Func(name, TRUE, <<>>)

IsDeclaration(F) == F.decl
IsIntrinsic(F) == StartsWith(F.name, <<"llvm.">>)

HasFunction(m, name) == \E i \in 1..Len(m.funcs) : m.funcs[i].name = name
GetFunction(m, name) == m.funcs[CHOOSE i \in 1..Len(m.funcs) : m.funcs[i].name = name]

\* Module::getOrInsertFunction
GetOrInsertFunction(m, name) ==
  IF HasFunction(m, name) THEN m
  ELSE [m EXCEPT !.funcs = Append(@, Declaration(name))]

\* Function::Create(..., Name, &M) with a body
CreateFunction(m, name, blocks) ==
  [m EXCEPT !.funcs = Append(@, Func(name, FALSE, blocks))]

\* what a function pass leaves behind once the pass manager has run it on
\* every function definition of the module
WithFunctions(m, funcs) == [m EXCEPT !.funcs = funcs, !.nextId = NextBase(@)]

\* isPrimaryPackage: getenv's result is non-null and equal to "1"
IsPrimaryPackage(e) == e # "unset" /\ e = "1"

(***************************************************************************)
(* InstMarker.                                                             *)
(***************************************************************************)
HasUnsafeMD(I) == I.tag

\* captureUnsafeLineInfo with createUnsafeLineMetadata
CaptureUnsafeLineInfoInst(I) ==
  IF HasUnsafeMD(I) /\ I.dl.present /\ I.dl.line # 0 /\ I.dl.file # <<>>
  THEN [I EXCEPT !.li = [present |-> TRUE, line |-> I.dl.line, file |-> I.dl.file]]
  ELSE I

CaptureUnsafeLineInfo(F) ==
  [F EXCEPT !.blocks = [b \in 1..Len(F.blocks) |->
      [i \in 1..Len(F.blocks[b]) |-> CaptureUnsafeLineInfoInst(F.blocks[b][i])]]]

UnsafeIndices(bb) == {i \in 1..Len(bb) : HasUnsafeMD(bb[i])}
\* 0 stands for nullptr
FirstUnsafeInst(bb) == IF UnsafeIndices(bb) = {} THEN 0 ELSE MinOf(UnsafeIndices(bb))
LastUnsafeInst(bb) == IF UnsafeIndices(bb) = {} THEN 0 ELSE MaxOf(UnsafeIndices(bb))

\* EndMarkerTarget without the branch for getNextNode() returning nullptr
EndMarkerTargetNoFallback(bb) ==
  IF LastUnsafeInst(bb) < Len(bb) THEN LastUnsafeInst(bb) + 1 ELSE 0

\* the instruction the end marker goes in front of: the one after the last
\* unsafe instruction, or the terminator when there is none after it
EndMarkerTarget(bb) ==
  IF LastUnsafeInst(bb) < Len(bb) THEN LastUnsafeInst(bb) + 1 ELSE Len(bb)

\* InsertUnsafeMarkersBlock with the end marker behind the last unsafe
\* instruction even when that is the terminator
InsertUnsafeMarkersBlockAfterLast(bb, base) ==
  LET first == FirstUnsafeInst(bb)
      last == LastUnsafeInst(bb)
      a == bb[first].id
      pre == [i \in 1..Len(bb) |->
                (IF i = first THEN <<AsmCall(UNSAFE_MARKER_BEGIN, Fresh(base, a, 0))>> ELSE <<>>)
                \o (IF i = last + 1
                    THEN <<AsmCall(UNSAFE_MARKER_END, Fresh(base, a, 1))>> ELSE <<>>)]
  IN IF first = 0 THEN bb
     ELSE Splice(bb, pre, KeepAll(bb))
          \o (IF last = Len(bb) THEN <<AsmCall(UNSAFE_MARKER_END, Fresh(base, a, 1))>> ELSE <<>>)

InsertUnsafeMarkersBlock(bb, base) ==
  LET first == FirstUnsafeInst(bb)
      a == bb[first].id
      pre == [i \in 1..Len(bb) |->
                (IF i = first THEN <<AsmCall(UNSAFE_MARKER_BEGIN, Fresh(base, a, 0))>> ELSE <<>>)
                \o (IF i = EndMarkerTarget(bb)
                    THEN <<AsmCall(UNSAFE_MARKER_END, Fresh(base, a, 1))>> ELSE <<>>)]
  IN IF first = 0 THEN bb ELSE Splice(bb, pre, KeepAll(bb))

InsertUnsafeMarkers(F, base) ==
  [F EXCEPT !.blocks = [b \in 1..Len(F.blocks) |-> InsertUnsafeMarkersBlock(F.blocks[b], base)]]

InstMarkerRun(F, base) == InsertUnsafeMarkers(CaptureUnsafeLineInfo(F), base)

InstMarkerPass(m, e) ==
  IF ~IsPrimaryPackage(e) THEN m
  ELSE WithFunctions(m, [i \in 1..Len(m.funcs) |->
         IF IsDeclaration(m.funcs[i]) THEN m.funcs[i] ELSE InstMarkerRun(m.funcs[i], m.nextId)])

InstMarkerVerdict(m, e) ==
  IF IsPrimaryPackage(e) /\ \E i \in 1..Len(m.funcs) : \E b \in 1..Len(m.funcs[i].blocks) :
       FirstUnsafeInst(m.funcs[i].blocks[b]) # 0
  THEN "none" ELSE "all"

(***************************************************************************)
(* CpuCycleCount.                                                          *)
(***************************************************************************)
\* CollectPairs with a begin met while a run is open taking the place of the
\* open one
RECURSIVE CollectPairsInnerWins(_, _, _)
CollectPairsInnerWins(bb, i, cur) ==
  IF i > Len(bb) THEN <<>>
  ELSE IF ~IsCallBase(bb[i]) \/ bb[i].asm = "" THEN CollectPairsInnerWins(bb, i + 1, cur)
  ELSE IF bb[i].asm = UNSAFE_MARKER_BEGIN THEN CollectPairsInnerWins(bb, i + 1, i)
  ELSE IF bb[i].asm = UNSAFE_MARKER_END /\ cur # 0
       THEN <<<<cur, i>>>> \o CollectPairsInnerWins(bb, i + 1, 0)
  ELSE CollectPairsInnerWins(bb, i + 1, cur)

\* first pass of instrumentUnsafeBlocks on one block: the <<begin, end>> index
\* pairs; cur is CurrentBeginMarker (0 for nullptr)
RECURSIVE CollectPairs(_, _, _)
CollectPairs(bb, i, cur) ==
  IF i > Len(bb) THEN <<>>
  ELSE IF ~IsCallBase(bb[i]) \/ bb[i].asm = "" THEN CollectPairs(bb, i + 1, cur)
  ELSE IF bb[i].asm = UNSAFE_MARKER_BEGIN
       THEN CollectPairs(bb, i + 1, IF cur = 0 THEN i ELSE cur)
  ELSE IF bb[i].asm = UNSAFE_MARKER_END /\ cur # 0
       THEN <<<<cur, i>>>> \o CollectPairs(bb, i + 1, 0)
  ELSE CollectPairs(bb, i + 1, cur)

InstrumentationPairs(bb) == CollectPairs(bb, 1, 0)
PairBegins(bb) == {InstrumentationPairs(bb)[k][1] : k \in 1..Len(InstrumentationPairs(bb))}
PairEnds(bb) == {InstrumentationPairs(bb)[k][2] : k \in 1..Len(InstrumentationPairs(bb))}
BeginOf(bb, e) ==
  LET ps == InstrumentationPairs(bb)
  IN ps[CHOOSE k \in 1..Len(ps) : ps[k][2] = e][1]

\* the markers every pair names, erased in the third pass
MarkersToRemove(bb) == PairBegins(bb) \cup PairEnds(bb)

\* InstrumentUnsafeBlock with every end call taking the value of the block's
\* first start call
InstrumentUnsafeBlockFirstStart(bb, base) ==
  LET first == MinOf(PairBegins(bb))
      pre == [i \in 1..Len(bb) |->
        IF i \in PairBegins(bb)
        THEN <<Fence(Fresh(base, bb[i].id, 0)),
               CallTo(START_MEASUREMENT_FN, <<>>, Fresh(base, bb[i].id, 1))>>
        ELSE IF i \in PairEnds(bb)
        THEN <<Fence(Fresh(base, bb[BeginOf(bb, i)].id, 2)),
               CallTo(END_MEASUREMENT_FN, <<Val(Fresh(base, bb[first].id, 1))>>,
                      Fresh(base, bb[BeginOf(bb, i)].id, 3))>>
        ELSE <<>>]
      keep == [i \in 1..Len(bb) |-> i \notin MarkersToRemove(bb)]
  IN Splice(bb, pre, keep)

\* second and third pass of instrumentUnsafeBlocks on one block
InstrumentUnsafeBlock(bb, base) ==
  LET pre == [i \in 1..Len(bb) |->
        IF i \in PairBegins(bb)
        THEN <<Fence(Fresh(base, bb[i].id, 0)),
               CallTo(START_MEASUREMENT_FN, <<>>, Fresh(base, bb[i].id, 1))>>
        ELSE IF i \in PairEnds(bb)
        THEN <<Fence(Fresh(base, bb[BeginOf(bb, i)].id, 2)),
               CallTo(END_MEASUREMENT_FN, <<Val(Fresh(base, bb[BeginOf(bb, i)].id, 1))>>,
                      Fresh(base, bb[BeginOf(bb, i)].id, 3))>>
        ELSE <<>>]
      keep == [i \in 1..Len(bb) |-> i \notin MarkersToRemove(bb)]
  IN Splice(bb, pre, keep)

InstrumentUnsafeBlocks(F, base) ==
  [F EXCEPT !.blocks = [b \in 1..Len(F.blocks) |-> InstrumentUnsafeBlock(F.blocks[b], base)]]

FunctionHasPairs(F) == \E b \in 1..Len(F.blocks) : InstrumentationPairs(F.blocks[b]) # <<>>

SetupRuntimeFunctions(m) ==
  GetOrInsertFunction(GetOrInsertFunction(GetOrInsertFunction(GetOrInsertFunction(
    m, PROGRAM_START_FN), START_MEASUREMENT_FN), END_MEASUREMENT_FN), PRINT_STATS_FN)

SetupModuleHooks(m) ==
  LET body == <<<<CallTo(PROGRAM_START_FN, <<>>, Fresh(m.nextId, 0, 0)),
                  Inst("ret", FALSE, NoName, "", <<>>, NoLoc, Fresh(m.nextId, 0, 1))>>>>
      created == CreateFunction(m, CPU_CYCLE_CTOR, body)
  IN [created EXCEPT !.ctors = Append(@, CPU_CYCLE_CTOR),
                     !.dtors = Append(@, PRINT_STATS_FN)]

CpuCycleCountPass(m, e) ==
  IF ~IsPrimaryPackage(e) THEN m
  ELSE LET hooked == SetupModuleHooks(SetupRuntimeFunctions(m))
       IN WithFunctions(hooked, [i \in 1..Len(hooked.funcs) |->
            IF IsDeclaration(hooked.funcs[i]) THEN hooked.funcs[i]
            ELSE InstrumentUnsafeBlocks(hooked.funcs[i], m.nextId)])

CpuCycleCountVerdict(m, e) ==
  IF ~IsPrimaryPackage(e) THEN "all"
  ELSE IF \E i \in 1..Len(m.funcs) : ~IsDeclaration(m.funcs[i]) /\ FunctionHasPairs(m.funcs[i])
       THEN "none" ELSE "all"

(***************************************************************************)
(* DebugInfoPreserver.                                                     *)
(***************************************************************************)
\* PHINode::moveBefore: the instruction at index i goes in front of index p
MoveBefore(bb, i, p) ==
  SubSeq(bb, 1, p - 1) \o <<bb[i]>> \o SubSeq(bb, p, i - 1) \o SubSeq(bb, i + 1, Len(bb))

\* verifyPHINodes: i is the iterator I, p the iterator InsertPt
RECURSIVE VerifyPHINodesFrom(_, _, _)
VerifyPHINodesFrom(bb, i, p) ==
  IF i > Len(bb) \/ bb[i].op # "phi" THEN [bb |-> bb, modified |-> FALSE]
  ELSE LET rest == VerifyPHINodesFrom(IF i # p THEN MoveBefore(bb, i, p) ELSE bb, i + 1, p + 1)
       IN [bb |-> rest.bb, modified |-> (i # p) \/ rest.modified]

VerifyPHINodes(bb) == VerifyPHINodesFrom(bb, 1, 1)

IsValidDebugLocation(loc) ==
  loc.present /\ loc.scope /\ loc.hasFile /\ loc.line > 0 /\ loc.col > 0

\* step c on one block: one operand per instruction with a valid location
RECURSIVE CollectLocs(_, _)
CollectLocs(bb, i) ==
  IF i > Len(bb) THEN <<>>
  ELSE (IF bb[i].dl.present /\ IsValidDebugLocation(bb[i].dl) THEN <<bb[i].dl>> ELSE <<>>)
       \o CollectLocs(bb, i + 1)

RECURSIVE CollectLocsBlocks(_, _)
CollectLocsBlocks(blocks, b) ==
  IF b > Len(blocks) THEN <<>>
  ELSE CollectLocs(blocks[b], 1) \o CollectLocsBlocks(blocks, b + 1)

RECURSIVE MetadataRefs(_, _)
MetadataRefs(funcs, i) ==
  IF i > Len(funcs) THEN <<>>
  ELSE CollectLocsBlocks(funcs[i].blocks, 1) \o MetadataRefs(funcs, i + 1)

Global(name, init, md) == [name |-> name, init |-> init, md |-> md]

\* run has no isPrimaryPackage test
DebugInfoPreserverPass(m, e) ==
  LET funcs == [i \in 1..Len(m.funcs) |->
                  IF IsDeclaration(m.funcs[i]) THEN m.funcs[i]
                  ELSE [m.funcs[i] EXCEPT !.blocks =
                          [b \in 1..Len(m.funcs[i].blocks) |-> VerifyPHINodes(m.funcs[i].blocks[b]).bb]]]
  IN [m EXCEPT !.funcs = funcs,
               !.globals = Append(@, Global(COVERAGE_ANCHOR, <<>>, MetadataRefs(funcs, 1))),
               !.used = Append(@, COVERAGE_ANCHOR)]

DebugInfoPreserverVerdict(m, e) ==
  IF \E i \in 1..Len(m.funcs) : ~IsDeclaration(m.funcs[i]) /\
       \E b \in 1..Len(m.funcs[i].blocks) : VerifyPHINodes(m.funcs[i].blocks[b]).modified
  THEN "none" ELSE "all"

(***************************************************************************)
(* UnsafeFunctionTracker.                                                  *)
(***************************************************************************)
\* UINT32_MAX, what getFunctionId returns for a function without the attachment.
\* TLC's integers end at 2^31 - 1, which stands for it here: an id the tracker
\* gives in the model never comes near either number.
UINT32_MAX == 2147483647

\* shouldInstrumentFunction (UnsafeFunctionTracker.cpp and UnsafeInstCounter.cpp)
ShouldInstrumentFunction(F) ==
  IF IsDeclaration(F) \/ IsIntrinsic(F) THEN FALSE
  ELSE ~StartsWith(F.name, <<"__unsafe_">>) /\ ~StartsWith(F.name, <<"llvm.">>)

\* isMarkerInstruction
IsMarkerInstruction(I) ==
  IsCallBase(I) /\ I.asm # "" /\ (I.asm = UNSAFE_MARKER_BEGIN \/ I.asm = UNSAFE_MARKER_END)

RECURSIVE FlattenBlocks(_, _)
FlattenBlocks(blocks, b) ==
  IF b > Len(blocks) THEN <<>> ELSE blocks[b] \o FlattenBlocks(blocks, b + 1)

\* analyzeFunction's loop over the function's instructions, block after block
RECURSIVE AnalyzeFrom(_, _, _)
AnalyzeFrom(insts, i, inUnsafeRegion) ==
  IF i > Len(insts) THEN FALSE
  ELSE IF IsMarkerInstruction(insts[i])
       THEN AnalyzeFrom(insts, i + 1,
              IF insts[i].asm = UNSAFE_MARKER_BEGIN THEN TRUE
              ELSE IF insts[i].asm = UNSAFE_MARKER_END THEN FALSE ELSE inUnsafeRegion)
  ELSE IF inUnsafeRegion /\ HasUnsafeMD(insts[i]) THEN TRUE
  ELSE AnalyzeFrom(insts, i + 1, inUnsafeRegion)

\* AnalyzeFunction with every unsafe_inst taken for one inside a region
AnalyzeFunctionAnyTagged(F) ==
  \E k \in 1..Len(FlattenBlocks(F.blocks, 1)) : HasUnsafeMD(FlattenBlocks(F.blocks, 1)[k])

AnalyzeFunction(F) == AnalyzeFrom(FlattenBlocks(F.blocks, 1), 1, FALSE)

FunctionMetadata(id, isUnsafe) ==
  [id |-> id, hasUnsafeInst |-> IF isUnsafe THEN 1 ELSE 0, hasUnsafeRegions |-> 0, padding |-> 0]

\* AssignIds with the counter advanced for every function of the module
RECURSIVE AssignIdsCountingAll(_, _, _)
AssignIdsCountingAll(funcs, i, nextId) ==
  IF i > Len(funcs) THEN [funcs |-> funcs, metadata |-> <<>>, functionsToInstrument |-> <<>>]
  ELSE IF ~ShouldInstrumentFunction(funcs[i]) THEN AssignIdsCountingAll(funcs, i + 1, nextId + 1)
  ELSE LET rest == AssignIdsCountingAll([funcs EXCEPT ![i].fid = nextId], i + 1, nextId + 1)
       IN [funcs |-> rest.funcs,
           metadata |-> <<FunctionMetadata(nextId, AnalyzeFunction(funcs[i]))>> \o rest.metadata,
           functionsToInstrument |-> <<i>> \o rest.functionsToInstrument]

\* Phase 1: the loop over the module's functions with its counter nextId
RECURSIVE AssignIds(_, _, _)
AssignIds(funcs, i, nextId) ==
  IF i > Len(funcs) THEN [funcs |-> funcs, metadata |-> <<>>, functionsToInstrument |-> <<>>]
  ELSE IF ~ShouldInstrumentFunction(funcs[i]) THEN AssignIds(funcs, i + 1, nextId)
  ELSE LET rest == AssignIds([funcs EXCEPT ![i].fid = nextId], i + 1, nextId + 1)
       IN [funcs |-> rest.funcs,
           metadata |-> <<FunctionMetadata(nextId, AnalyzeFunction(funcs[i]))>> \o rest.metadata,
           functionsToInstrument |-> <<i>> \o rest.functionsToInstrument]

\* Phase 5 on one function: the call goes in front of the entry block's first instruction
InstrumentEntry(F, base) ==
  [F EXCEPT !.blocks[1] =
     <<CallTo(RECORD_FUNCTION_FN, <<Const(F.fid)>>, Fresh(base, F.blocks[1][1].id, 0))>> \o @]

InSeq(x, seq) == \E k \in 1..Len(seq) : seq[k] = x

UnsafeFunctionTrackerPass(m, e) ==
  IF ~IsPrimaryPackage(e) THEN m
  ELSE LET p1 == AssignIds(m.funcs, 1, 0)
           declared == GetOrInsertFunction(GetOrInsertFunction(GetOrInsertFunction(
                         [m EXCEPT !.funcs = p1.funcs],
                         INIT_METADATA_FN), RECORD_FUNCTION_FN), DUMP_STATS_FN)
           \* the bitcast of the table is a constant expression, no instruction
           initBody == <<<<CallTo(INIT_METADATA_FN,
                                  <<Str(METADATA_TABLE), Const(Len(p1.metadata))>>,
                                  Fresh(m.nextId, 0, 0)),
                           Inst("ret", FALSE, NoName, "", <<>>, NoLoc, Fresh(m.nextId, 0, 1))>>>>
           hooked == [CreateFunction(declared, MODULE_INIT_FN, initBody) EXCEPT
                        !.globals = Append(@, Global(METADATA_TABLE, p1.metadata, <<>>)),
                        !.ctors = Append(@, MODULE_INIT_FN),
                        !.dtors = Append(@, DUMP_STATS_FN)]
       IN IF p1.metadata = <<>> THEN m
          ELSE WithFunctions(hooked, [i \in 1..Len(hooked.funcs) |->
                 IF InSeq(i, p1.functionsToInstrument)
                 THEN InstrumentEntry(hooked.funcs[i], m.nextId) ELSE hooked.funcs[i]])

UnsafeFunctionTrackerVerdict(m, e) ==
  IF IsPrimaryPackage(e) /\ AssignIds(m.funcs, 1, 0).metadata # <<>> THEN "none" ELSE "all"

(***************************************************************************)
(* UnsafeInstCounter.                                                      *)
(***************************************************************************)
UNSAFE_LOAD == 0
UNSAFE_STORE == 1
UNSAFE_CALL == 2
UNSAFE_CAST == 3
UNSAFE_GEP == 4
UNSAFE_OTHER == 5
MAX_UNSAFE_CATEGORIES == 6
\* width of BlockCounts' unsafeCounts (uint16_t).  The two totals are uint32_t:
\* they wrap at 2^32, beyond TLC's integers and beyond any block of the model.
CategoryBits == 16

\* BlockCounts::BlockCounts
ZeroCounts ==
  [totalInsts |-> 0, totalUnsafeInsts |-> 0,
   unsafeCounts |-> [c \in 1..MAX_UNSAFE_CATEGORIES |-> 0]]

GetUnsafeCategory(I) ==
  CASE I.op = "load" -> UNSAFE_LOAD
    [] I.op \in {"store", "cmpxchg", "atomicrmw"} -> UNSAFE_STORE
    [] I.op \in {"call", "invoke", "callbr"} -> UNSAFE_CALL
    [] I.op \in {"bitcast", "inttoptr", "ptrtoint", "addrspacecast"} -> UNSAFE_CAST
    [] I.op = "getelementptr" -> UNSAFE_GEP
    [] OTHER -> UNSAFE_OTHER

IsDbgInfoIntrinsic(I) == IsCallBase(I) /\ StartsWith(I.callee, <<"llvm.", "dbg.">>)

\* CountInsts with the sentinels counted like any other instruction
CountInstsWithMarkers(st, I, k) ==
  IF IsDbgInfoIntrinsic(I) THEN st
  ELSE IF IsMarkerInstruction(I)
       THEN [st EXCEPT !.inUnsafeRegion = (I.asm = UNSAFE_MARKER_BEGIN),
                       !.counts.totalInsts = @ + k]
  ELSE IF ~st.inUnsafeRegion
       THEN [st EXCEPT !.counts.totalInsts = @ + k]
  ELSE [st EXCEPT !.counts.totalInsts = @ + k,
                  !.counts.totalUnsafeInsts = @ + k,
                  !.counts.unsafeCounts[GetUnsafeCategory(I) + 1] = (@ + k) % (2 ^ CategoryBits)]

\* the body of analyzeBasicBlock's loop, executed on k consecutive copies of
\* instruction I; st is [counts, inUnsafeRegion]
CountInsts(st, I, k) ==
  IF IsDbgInfoIntrinsic(I) THEN st
  ELSE IF IsMarkerInstruction(I)
       THEN [st EXCEPT !.inUnsafeRegion = (I.asm = UNSAFE_MARKER_BEGIN)]
  ELSE IF ~st.inUnsafeRegion
       THEN [st EXCEPT !.counts.totalInsts = @ + k]
  ELSE [st EXCEPT !.counts.totalInsts = @ + k,
                  !.counts.totalUnsafeInsts = @ + k,
                  !.counts.unsafeCounts[GetUnsafeCategory(I) + 1] = (@ + k) % (2 ^ CategoryBits)]

RECURSIVE AnalyzeBlockFrom(_, _, _)
AnalyzeBlockFrom(bb, i, st) ==
  IF i > Len(bb) THEN st ELSE AnalyzeBlockFrom(bb, i + 1, CountInsts(st, bb[i], 1))

AnalyzeBasicBlock(bb) ==
  AnalyzeBlockFrom(bb, 1, [counts |-> ZeroCounts, inUnsafeRegion |-> FALSE]).counts

\* getFunctionId with the id of the module's first function for every function that has one
GetFunctionIdOfFirst(F) == IF F.fid = NoId THEN UINT32_MAX ELSE 0

GetFunctionId(F) == IF F.fid = NoId THEN UINT32_MAX ELSE F.fid

\* the arguments of the __unsafe_record_block call built from a block's counts
RecordBlockArgs(funcId, counts) ==
  IF counts.totalUnsafeInsts > 0
  THEN <<Const(funcId), Const(counts.totalInsts), Const(counts.totalUnsafeInsts)>>
       \o [c \in 1..MAX_UNSAFE_CATEGORIES |-> Const(counts.unsafeCounts[c])]
  ELSE <<Const(funcId), Const(counts.totalInsts), Const(0)>>
       \o [c \in 1..MAX_UNSAFE_CATEGORIES |-> Const(0)]

\* InstrumentBlockCounts with the call put in place of the instruction in front
\* of the terminator
InstrumentBlockCountsInPlace(bb, funcId, base) ==
  IF AnalyzeBasicBlock(bb).totalInsts > 0
  THEN SubSeq(bb, 1, Len(bb) - 2)
       \o <<CallTo(RECORD_BLOCK_FN, RecordBlockArgs(funcId, AnalyzeBasicBlock(bb)),
                   Fresh(base, bb[Len(bb)].id, 0))>>
       \o <<bb[Len(bb)]>>
  ELSE bb

\* InstrumentBlockCounts with the call built one instruction further up
InstrumentBlockCountsOneUp(bb, funcId, base) ==
  IF AnalyzeBasicBlock(bb).totalInsts > 0
  THEN IF Len(bb) = 1
       THEN <<CallTo(RECORD_BLOCK_FN, RecordBlockArgs(funcId, AnalyzeBasicBlock(bb)),
                     Fresh(base, bb[Len(bb)].id, 0))>> \o bb
       ELSE SubSeq(bb, 1, Len(bb) - 2)
            \o <<CallTo(RECORD_BLOCK_FN, RecordBlockArgs(funcId, AnalyzeBasicBlock(bb)),
                        Fresh(base, bb[Len(bb)].id, 0))>>
            \o SubSeq(bb, Len(bb) - 1, Len(bb))
  ELSE bb

InstrumentBlockCounts(bb, funcId, base) ==
  IF AnalyzeBasicBlock(bb).totalInsts > 0
  THEN SubSeq(bb, 1, Len(bb) - 1)
       \o <<CallTo(RECORD_BLOCK_FN, RecordBlockArgs(funcId, AnalyzeBasicBlock(bb)),
                   Fresh(base, bb[Len(bb)].id, 0))>>
       \o <<bb[Len(bb)]>>
  ELSE bb

CounterRuns(F) == ShouldInstrumentFunction(F) /\ GetFunctionId(F) # UINT32_MAX

UnsafeInstCounterRun(F, base) ==
  IF ~CounterRuns(F) THEN F
  ELSE [F EXCEPT !.blocks = [b \in 1..Len(F.blocks) |->
          InstrumentBlockCounts(F.blocks[b], GetFunctionId(F), base)]]

UnsafeInstCounterPass(m, e) ==
  IF ~IsPrimaryPackage(e) THEN m
  ELSE LET declared == IF \E i \in 1..Len(m.funcs) : CounterRuns(m.funcs[i])
                       THEN GetOrInsertFunction(m, RECORD_BLOCK_FN) ELSE m
       IN WithFunctions(declared, [i \in 1..Len(declared.funcs) |->
            IF IsDeclaration(declared.funcs[i]) THEN declared.funcs[i]
            ELSE UnsafeInstCounterRun(declared.funcs[i], m.nextId)])

UnsafeInstCounterVerdict(m, e) ==
  IF IsPrimaryPackage(e) /\ \E i \in 1..Len(m.funcs) : CounterRuns(m.funcs[i]) /\
       \E b \in 1..Len(m.funcs[i].blocks) : AnalyzeBasicBlock(m.funcs[i].blocks[b]).totalInsts > 0
  THEN "none" ELSE "all"

(***************************************************************************)
(* ExternalCallTracker.                                                    *)
(***************************************************************************)
IsRuntimeFunction(name) ==
  \/ StartsWith(name, <<"cpu_cycle_">>)
  \/ StartsWith(name, <<"record_">>)
  \/ StartsWith(name, <<"external_call_">>)

\* first pass of instrumentExternalCalls on one block; a call through inline
\* asm or a pointer has no called function
CallsToInstrument(m, bb) ==
  {i \in 1..Len(bb) :
     /\ IsCallBase(bb[i])
     /\ bb[i].callee # NoName /\ HasFunction(m, bb[i].callee)
     /\ IsDeclaration(GetFunction(m, bb[i].callee))
     /\ ~IsIntrinsic(GetFunction(m, bb[i].callee))
     /\ ~IsRuntimeFunction(bb[i].callee)}

\* Instruction::getNextNonDebugInstruction, 0 for nullptr
\* getNextNonDebugInstruction taken for getNextNode
NextInstruction(bb, i) == IF i < Len(bb) THEN i + 1 ELSE 0

NextNonDebugInstruction(bb, i) ==
  IF \E j \in (i + 1)..Len(bb) : ~IsDbgInfoIntrinsic(bb[j])
  THEN MinOf({j \in (i + 1)..Len(bb) : ~IsDbgInfoIntrinsic(bb[j])}) ELSE 0

\* the collected calls the second pass does not skip
TimedCalls(m, bb) == {c \in CallsToInstrument(m, bb) : ~IsTerminator(bb[c])}

\* InstrumentExternalCallsBlock with the end pair put behind the next
\* instruction where one more instruction follows
InstrumentExternalCallsBlockEndBehind(m, bb, base) ==
  LET endAt == [c \in TimedCalls(m, bb) |->
                  IF NextNonDebugInstruction(bb, c) # 0 /\ NextNonDebugInstruction(bb, c) < Len(bb)
                  THEN NextNonDebugInstruction(bb, c) + 1 ELSE NextNonDebugInstruction(bb, c)]
      pre == [i \in 1..Len(bb) |->
        (IF \E c \in TimedCalls(m, bb) : endAt[c] = i
         THEN LET c == CHOOSE c \in TimedCalls(m, bb) : endAt[c] = i
              IN <<Fence(Fresh(base, bb[c].id, 2)),
                   CallTo(EXTERNAL_CALL_END_FN, <<Val(Fresh(base, bb[c].id, 1))>>,
                          Fresh(base, bb[c].id, 3))>>
         ELSE <<>>)
        \o (IF i \in TimedCalls(m, bb)
            THEN <<Fence(Fresh(base, bb[i].id, 0)),
                   CallTo(EXTERNAL_CALL_START_FN, <<>>, Fresh(base, bb[i].id, 1))>>
            ELSE <<>>)]
  IN Splice(bb, pre, KeepAll(bb))

InstrumentExternalCallsBlock(m, bb, base) ==
  LET pre == [i \in 1..Len(bb) |->
        (IF \E c \in TimedCalls(m, bb) : NextNonDebugInstruction(bb, c) = i
         THEN LET c == CHOOSE c \in TimedCalls(m, bb) : NextNonDebugInstruction(bb, c) = i
              IN <<Fence(Fresh(base, bb[c].id, 2)),
                   CallTo(EXTERNAL_CALL_END_FN, <<Val(Fresh(base, bb[c].id, 1))>>,
                          Fresh(base, bb[c].id, 3))>>
         ELSE <<>>)
        \o (IF i \in TimedCalls(m, bb)
            THEN <<Fence(Fresh(base, bb[i].id, 0)),
                   CallTo(EXTERNAL_CALL_START_FN, <<>>, Fresh(base, bb[i].id, 1))>>
            ELSE <<>>)]
  IN Splice(bb, pre, KeepAll(bb))

InstrumentExternalCalls(m, F, base) ==
  [F EXCEPT !.blocks = [b \in 1..Len(F.blocks) |-> InstrumentExternalCallsBlock(m, F.blocks[b], base)]]

ExternalCallTrackerPass(m, e) ==
  IF ~IsPrimaryPackage(e) THEN m
  ELSE LET declared == GetOrInsertFunction(GetOrInsertFunction(m,
                         EXTERNAL_CALL_START_FN), EXTERNAL_CALL_END_FN)
       IN WithFunctions(declared, [i \in 1..Len(declared.funcs) |->
            IF IsDeclaration(declared.funcs[i]) \/ IsRuntimeFunction(declared.funcs[i].name)
            THEN declared.funcs[i]
            ELSE InstrumentExternalCalls(declared, declared.funcs[i], m.nextId)])

ExternalCallTrackerVerdict(m, e) ==
  IF IsPrimaryPackage(e) /\ \E i \in 1..Len(m.funcs) :
       /\ ~IsDeclaration(m.funcs[i]) /\ ~IsRuntimeFunction(m.funcs[i].name)
       /\ \E b \in 1..Len(m.funcs[i].blocks) : \E c \in TimedCalls(m, m.funcs[i].blocks[b]) :
            NextNonDebugInstruction(m.funcs[i].blocks[b], c) # 0
  THEN "none" ELSE "all"

(***************************************************************************)
(* HeapTracker.                                                            *)
(***************************************************************************)
IsMemInst(I) == I.op = "load" \/ I.op = "store"
PointerOperand(I) == I.args[1]

\* instrumentMemInst on one block
InstrumentMemInstBlock(bb, base) ==
  Splice(bb,
         [i \in 1..Len(bb) |->
            IF IsMemInst(bb[i])
            THEN <<CallTo(DYN_MEM_ACCESS_FN, <<PointerOperand(bb[i])>>, Fresh(base, bb[i].id, 0))>>
            ELSE <<>>],
         KeepAll(bb))

\* instrumentUnsafeMemInst's loop over one block; active is ActiveMarkerBegin # nullptr
RECURSIVE UnsafeMemInstFrom(_, _, _, _)
UnsafeMemInstFrom(bb, i, active, base) ==
  IF i > Len(bb) THEN <<>>
  ELSE (IF active /\ IsMemInst(bb[i])
        THEN <<CallTo(DYN_UNSAFE_MEM_ACCESS_FN,
                      <<PointerOperand(bb[i]), Const(IF bb[i].op = "load" THEN 1 ELSE 0)>>,
                      Fresh(base, bb[i].id, 1))>>
        ELSE <<>>)
       \o <<bb[i]>>
       \o UnsafeMemInstFrom(bb, i + 1,
            IF bb[i].op = "call" /\ bb[i].asm = UNSAFE_MARKER_BEGIN THEN TRUE
            ELSE IF bb[i].op = "call" /\ bb[i].asm = UNSAFE_MARKER_END THEN FALSE
            ELSE active, base)

\* InstrumentUnsafeMemInstBlock with ActiveMarkerBegin set before the test of
\* the instruction itself and cleared by any call
RECURSIVE UnsafeMemInstAfterCall(_, _, _)
UnsafeMemInstAfterCall(bb, i, base) ==
  IF i > Len(bb) THEN <<>>
  ELSE (IF i > 1 /\ IsBeginMarker(bb[i - 1]) /\ IsMemInst(bb[i])
        THEN <<CallTo(DYN_UNSAFE_MEM_ACCESS_FN,
                      <<PointerOperand(bb[i]), Const(IF bb[i].op = "load" THEN 1 ELSE 0)>>,
                      Fresh(base, bb[i].id, 1))>>
        ELSE <<>>)
       \o <<bb[i]>> \o UnsafeMemInstAfterCall(bb, i + 1, base)

InstrumentUnsafeMemInstFirstOnly(bb, base) == UnsafeMemInstAfterCall(bb, 1, base)

InstrumentUnsafeMemInstBlock(bb, base) == UnsafeMemInstFrom(bb, 1, FALSE, base)

\* HeapTrackerRun with the sweep for unsafe accesses made first
HeapTrackerRunUnsafeFirst(F, base) ==
  [F EXCEPT !.blocks = [b \in 1..Len(F.blocks) |->
     InstrumentMemInstBlock(InstrumentUnsafeMemInstBlock(F.blocks[b], base), base)]]

HeapTrackerRun(F, base) ==
  [F EXCEPT !.blocks = [b \in 1..Len(F.blocks) |->
     InstrumentUnsafeMemInstBlock(InstrumentMemInstBlock(F.blocks[b], base), base)]]

HeapTrackerPass(m, e) ==
  IF ~IsPrimaryPackage(e) \/ \A i \in 1..Len(m.funcs) : IsDeclaration(m.funcs[i]) THEN m
  ELSE LET declared == GetOrInsertFunction(GetOrInsertFunction(m,
                         DYN_MEM_ACCESS_FN), DYN_UNSAFE_MEM_ACCESS_FN)
       IN WithFunctions(declared, [i \in 1..Len(declared.funcs) |->
            IF IsDeclaration(declared.funcs[i]) THEN declared.funcs[i]
            ELSE HeapTrackerRun(declared.funcs[i], m.nextId)])

HeapTrackerVerdict(m, e) == "all"

(***************************************************************************)
(* DynamicLineCount.  A file name and a line key are sequences of          *)
(* characters.                                                             *)
(***************************************************************************)
Digits == <<"0", "1", "2", "3", "4", "5", "6", "7", "8", "9">>
IsDigit(c) == \E d \in 1..10 : Digits[d] = c
DigitValue(c) == (CHOOSE d \in 1..10 : Digits[d] = c) - 1

\* std::to_string of an unsigned
RECURSIVE UnsignedToString(_)
UnsignedToString(n) == IF n < 10 THEN <<Digits[n + 1]>> ELSE UnsignedToString(n \div 10) \o <<Digits[(n % 10) + 1]>>

\* std::stoul: the value of the leading digits; ok is FALSE where stoul throws
RECURSIVE StoulFrom(_, _, _)
StoulFrom(str, i, acc) ==
  IF i > Len(str) \/ ~IsDigit(str[i]) THEN acc
  ELSE StoulFrom(str, i + 1, acc * 10 + DigitValue(str[i]))

Stoul(str) ==
  [ok |-> str # <<>> /\ IsDigit(str[1]), value |-> StoulFrom(str, 1, 0)]

LineKey(file, line) == file \o <<":">> \o UnsignedToString(line)

\* std::string::find(':') and the two substr calls of createModuleConstructor
ColonPos(key) == MinOf({i \in 1..Len(key) : key[i] = ":"})
KeyFile(key) == SubSeq(key, 1, ColonPos(key) - 1)
KeyLine(key) == Stoul(SubSeq(key, ColonPos(key) + 1, Len(key)))

\* the order of std::set<std::string>: characters compared by their codes
CharCodes == <<".", "/", "0", "1", "2", "3", "4", "5", "6", "7", "8", "9", ":", "a", "b", "c", "r", "s">>
CharCode(c) == CHOOSE i \in 1..Len(CharCodes) : CharCodes[i] = c

RECURSIVE StringLess(_, _)
StringLess(a, b) ==
  IF b = <<>> THEN FALSE
  ELSE IF a = <<>> THEN TRUE
  ELSE IF a[1] = b[1] THEN StringLess(Tail(a), Tail(b))
  ELSE CharCode(a[1]) < CharCode(b[1])

RECURSIVE SortedKeys(_)
SortedKeys(keys) ==
  IF keys = {} THEN <<>>
  ELSE LET least == CHOOSE k \in keys : \A o \in keys \ {k} : StringLess(k, o)
       IN <<least>> \o SortedKeys(keys \ {least})

\* shouldInstrumentFunction of DynamicLineCount.cpp
ShouldInstrumentLines(F) ==
  IF IsDeclaration(F) \/ IsIntrinsic(F) THEN FALSE
  ELSE /\ F.name # REGISTER_UNSAFE_LINE_FN
       /\ F.name # TRACK_UNSAFE_LINE_EXECUTION_FN
       /\ F.name # PRINT_UNSAFE_COVERAGE_STATS_FN
       /\ F.name # LINES_MODULE_CTOR
       /\ F.name # LINES_MODULE_DTOR

\* collectAndInstrumentFunction's loop over one block: the rewritten block and
\* the keys added to allUnsafeLines
RECURSIVE CollectLinesFrom(_, _, _, _)
CollectLinesFrom(bb, i, inside, base) ==
  IF i > Len(bb) THEN [bb |-> <<>>, keys |-> {}]
  ELSE IF IsMarkerInstruction(bb[i])
       THEN LET rest == CollectLinesFrom(bb, i + 1, bb[i].asm = UNSAFE_MARKER_BEGIN, base)
            IN [bb |-> <<bb[i]>> \o rest.bb, keys |-> rest.keys]
  ELSE LET rest == CollectLinesFrom(bb, i + 1, inside, base)
       IN IF inside /\ HasUnsafeMD(bb[i]) /\ bb[i].li.present
          THEN [bb |-> <<CallTo(TRACK_UNSAFE_LINE_EXECUTION_FN,
                                <<Const(bb[i].li.line), Str(bb[i].li.file)>>,
                                Fresh(base, bb[i].id, 0)), bb[i]>> \o rest.bb,
                keys |-> {LineKey(bb[i].li.file, bb[i].li.line)} \cup rest.keys]
          ELSE [bb |-> <<bb[i]>> \o rest.bb, keys |-> rest.keys]

CollectAndInstrumentFunction(F, base) ==
  [F EXCEPT !.blocks = [b \in 1..Len(F.blocks) |-> CollectLinesFrom(F.blocks[b], 1, FALSE, base).bb]]

FunctionLines(F) ==
  UNION {CollectLinesFrom(F.blocks[b], 1, FALSE, 0).keys : b \in 1..Len(F.blocks)}

AllUnsafeLines(m) ==
  UNION {FunctionLines(m.funcs[i]) : i \in {j \in 1..Len(m.funcs) : ShouldInstrumentLines(m.funcs[j])}}

\* createModuleConstructor's body: one register call per key, in the set's order
ConstructorBody(keys, base) ==
  LET sorted == SortedKeys(keys)
  IN <<[k \in 1..Len(sorted) |->
          CallTo(REGISTER_UNSAFE_LINE_FN,
                 <<Const(KeyLine(sorted[k]).value), Str(KeyFile(sorted[k]))>>, Extra(base, k))]
       \o <<Inst("ret", FALSE, NoName, "", <<>>, NoLoc, Extra(base, Len(sorted) + 1))>>>>

DestructorBody(base) ==
  <<<<CallTo(PRINT_UNSAFE_COVERAGE_STATS_FN, <<>>, Fresh(base, 0, 0)),
      Inst("ret", FALSE, NoName, "", <<>>, NoLoc, Fresh(base, 0, 1))>>>>

\* std::stoul throws on a key whose text after the first ':' starts with no digit
ConstructorThrows(keys) == \E key \in keys : ~KeyLine(key).ok

\* run has no isPrimaryPackage test
DynamicLineCountPass(m, e) ==
  LET declared == GetOrInsertFunction(GetOrInsertFunction(GetOrInsertFunction(m,
                    REGISTER_UNSAFE_LINE_FN), TRACK_UNSAFE_LINE_EXECUTION_FN),
                    PRINT_UNSAFE_COVERAGE_STATS_FN)
      keys == AllUnsafeLines(declared)
      tracked == WithFunctions(declared, [i \in 1..Len(declared.funcs) |->
                   IF ShouldInstrumentLines(declared.funcs[i])
                   THEN CollectAndInstrumentFunction(declared.funcs[i], m.nextId)
                   ELSE declared.funcs[i]])
      withCtor == [CreateFunction(tracked, LINES_MODULE_CTOR, ConstructorBody(keys, m.nextId))
                     EXCEPT !.ctors = Append(@, LINES_MODULE_CTOR)]
      withDtor == [CreateFunction(withCtor, LINES_MODULE_DTOR, DestructorBody(m.nextId))
                     EXCEPT !.dtors = Append(@, LINES_MODULE_DTOR)]
  IN IF keys = {} \/ ConstructorThrows(keys) THEN tracked ELSE withDtor

DynamicLineCountVerdict(m, e) ==
  IF AllUnsafeLines(m) = {} THEN "all"
  ELSE IF ConstructorThrows(AllUnsafeLines(m)) THEN "throws" ELSE "none"

(***************************************************************************)
(* The pass manager.                                                       *)
(***************************************************************************)
PipelineOrder ==
  <<"InstMarker", "DebugInfoPreserver", "UnsafeFunctionTracker", "UnsafeInstCounter",
    "CpuCycleCount", "ExternalCallTracker", "HeapTracker">>

Runs(p) == Cardinality({k \in 1..Len(hist) : hist[k] = p})

\* the default pipeline runs the passes in its order; a custom pass list is any
\* bounded list in which only InstMarker may repeat
Scheduled(p) ==
  IF pm = "default"
  THEN Len(hist) < Len(PipelineOrder) /\ PipelineOrder[Len(hist) + 1] = p
  ELSE Len(hist) < MaxPasses /\ Runs(p) < (IF p = "InstMarker" THEN MaxPlanterRuns ELSE 1)

IsOriginal(I) == I.id < input.nextId

RECURSIVE SkeletonFrom(_, _)
SkeletonFrom(bb, i) ==
  IF i > Len(bb) THEN <<>>
  ELSE (IF IsOriginal(bb[i]) \/ IsSentinel(bb[i]) THEN <<bb[i]>> ELSE <<>>) \o SkeletonFrom(bb, i + 1)

\* the front-end's instructions and the sentinels of every block, in order
Skeleton(m) ==
  [i \in 1..Len(m.funcs) |-> [b \in 1..Len(m.funcs[i].blocks) |-> SkeletonFrom(m.funcs[i].blocks[b], 1)]]

Ran(p, m, v) ==
  /\ Scheduled(p)
  /\ mod' = m
  /\ verdict' = v
  /\ hist' = Append(hist, p)
  /\ UNCHANGED <<env, pm, input, bc>>

RunInstMarker ==
  /\ Ran("InstMarker", InstMarkerPass(mod, env), InstMarkerVerdict(mod, env))
  /\ snap' = Skeleton(mod')

RunDebugInfoPreserver ==
  /\ Ran("DebugInfoPreserver", DebugInfoPreserverPass(mod, env), DebugInfoPreserverVerdict(mod, env))
  /\ UNCHANGED snap

RunUnsafeFunctionTracker ==
  /\ Ran("UnsafeFunctionTracker", UnsafeFunctionTrackerPass(mod, env),
         UnsafeFunctionTrackerVerdict(mod, env))
  /\ UNCHANGED snap

RunUnsafeInstCounter ==
  /\ Ran("UnsafeInstCounter", UnsafeInstCounterPass(mod, env), UnsafeInstCounterVerdict(mod, env))
  /\ UNCHANGED snap

RunCpuCycleCount ==
  /\ Ran("CpuCycleCount", CpuCycleCountPass(mod, env), CpuCycleCountVerdict(mod, env))
  /\ UNCHANGED snap

RunExternalCallTracker ==
  /\ Ran("ExternalCallTracker", ExternalCallTrackerPass(mod, env),
         ExternalCallTrackerVerdict(mod, env))
  /\ UNCHANGED snap

RunHeapTracker ==
  /\ Ran("HeapTracker", HeapTrackerPass(mod, env), HeapTrackerVerdict(mod, env))
  /\ UNCHANGED snap

RunDynamicLineCount ==
  /\ Ran("DynamicLineCount", DynamicLineCountPass(mod, env), DynamicLineCountVerdict(mod, env))
  /\ UNCHANGED snap

Next ==
  \/ RunInstMarker
  \/ RunDebugInfoPreserver
  \/ RunUnsafeFunctionTracker
  \/ RunUnsafeInstCounter
  \/ RunCpuCycleCount
  \/ RunExternalCallTracker
  \/ RunHeapTracker
  \/ RunDynamicLineCount

(***************************************************************************)
(* Input modules.                                                          *)
(***************************************************************************)
SrcFile == <<"a", ".", "r", "s">>
Loc(line) == [present |-> TRUE, scope |-> TRUE, hasFile |-> TRUE, file |-> SrcFile, line |-> line, col |-> 5]
MEMCPY == <<"memcpy">>

\* what the front-end puts in a block: a tagged load, an untagged store, a
\* tagged call of an external function
BlockInsts ==
  {Inst("load", TRUE, NoName, "", <<Ptr(1)>>, Loc(42), 0),
   Inst("store", FALSE, NoName, "", <<Ptr(2)>>, NoLoc, 0),
   Inst("call", TRUE, MEMCPY, "", <<>>, Loc(43), 0)}

\* and at its end: a plain return, or a tagged invoke of an external function
BlockTerminators ==
  {Inst("ret", FALSE, NoName, "", <<>>, NoLoc, 0),
   Inst("invoke", TRUE, MEMCPY, "", <<>>, Loc(44), 0)}

RECURSIVE InstSeqs(_)
InstSeqs(n) ==
  IF n = 0 THEN {<<>>} ELSE {Append(q, I) : q \in InstSeqs(n - 1), I \in BlockInsts}

Blocks == {Append(q, T) : q \in UNION {InstSeqs(n) : n \in 0..MaxLen}, T \in BlockTerminators}

\* instruction ids first + 1, first + 2, ... in block order
Numbered(bb, first) == [i \in 1..Len(bb) |-> [bb[i] EXCEPT !.id = first + i]]

Module(funcs, nextId) ==
  [funcs |-> funcs, globals |-> <<>>, ctors |-> <<>>, dtors |-> <<>>, used |-> <<>>,
   nextId |-> nextId]

\* one function f with one generated block, and the external function it calls
InputModules ==
  {Module(<<Func(<<"f">>, FALSE, <<Numbered(bb, 0)>>), Declaration(MEMCPY)>>, Len(bb) + 3) :
     bb \in Blocks}

InitWith(e, m) ==
  /\ env = e
  /\ pm \in {"default", "custom"}
  /\ input = m
  /\ mod = m
  /\ hist = <<>>
  /\ verdict = "all"
  /\ snap = Skeleton(m)
  /\ bc = [counts |-> ZeroCounts, inUnsafeRegion |-> FALSE, n |-> 0, args |-> <<>>]

Init == \E m \in InputModules : InitWith("1", m)

Spec == Init /\ [][Next]_vars

(***************************************************************************)
(* The same pipeline with the selector left open.                          *)
(***************************************************************************)
EnvValues == {"unset", "", "0", "1", "true"}

InitSelector == \E m \in InputModules : \E e \in EnvValues : InitWith(e, m)

SpecSelector == InitSelector /\ [][Next]_vars

(***************************************************************************)
(* Modules of several functions, under the passes that give functions ids, *)
(* read them or add functions.                                             *)
(***************************************************************************)
FuncTemplates ==
  {Func(<<"f">>, FALSE,
        <<<<Inst("load", TRUE, NoName, "", <<Ptr(1)>>, Loc(42), 0),
            Inst("ret", FALSE, NoName, "", <<>>, NoLoc, 0)>>>>),
   Func(<<"g">>, FALSE,
        <<<<Inst("br", FALSE, NoName, "", <<>>, NoLoc, 0)>>,
          <<Inst("phi", FALSE, NoName, "", <<>>, NoLoc, 0),
            Inst("store", TRUE, NoName, "", <<Ptr(2)>>, Loc(43), 0),
            Inst("ret", FALSE, NoName, "", <<>>, NoLoc, 0)>>>>),
   Func(<<"__unsafe_", "helper">>, FALSE,
        <<<<Inst("ret", FALSE, NoName, "", <<>>, NoLoc, 0)>>>>),
   Declaration(MEMCPY),
   Declaration(<<"llvm.", "memcpy">>)}

RECURSIVE Layouts(_)
Layouts(n) ==
  IF n = 0 THEN {<<>>}
  ELSE {l \in {Append(q, T) : q \in Layouts(n - 1), T \in FuncTemplates} :
          \A i \in 1..(n - 1) : l[i].name # l[n].name}

\* instruction ids 4 * i + 2 * b + k for instruction k of block b of function i
NumberedFuncs(funcs) ==
  [i \in 1..Len(funcs) |->
     [funcs[i] EXCEPT !.blocks = [b \in 1..Len(funcs[i].blocks) |->
        Numbered(funcs[i].blocks[b], 4 * i + 2 * b)]]]

LayoutModules ==
  {Module(NumberedFuncs(l), 4 * Len(l) + 8) : l \in UNION {Layouts(n) : n \in 1..MaxFuncs}}

InitIds ==
  /\ pm = "custom"
  /\ \E m \in LayoutModules : InitWith("1", m)

NextIds ==
  \/ RunDebugInfoPreserver
  \/ RunUnsafeFunctionTracker
  \/ RunUnsafeInstCounter
  \/ RunCpuCycleCount
  \/ RunDynamicLineCount

SpecIds == InitIds /\ [][NextIds]_vars

(***************************************************************************)
(* analyzeBasicBlock on blocks of any length: the block is scanned as runs *)
(* of equal instructions, and the terminator ends the scan.                *)
(***************************************************************************)
ScanInsts ==
  {Inst(op, FALSE, NoName, "", <<>>, NoLoc, 0) :
     op \in {"load", "store", "bitcast", "getelementptr", "add"}}
  \cup {CallTo(MEMCPY, <<>>, 0), CallTo(<<"llvm.", "dbg.", "value">>, <<>>, 0),
        AsmCall(UNSAFE_MARKER_BEGIN, 0), AsmCall(UNSAFE_MARKER_END, 0)}

\* lengths of a run: one instruction, the most a 16-bit counter holds, one more
RunLengths == {1, 2 ^ CategoryBits - 1, 2 ^ CategoryBits}

ScanRun ==
  /\ bc.args = <<>> /\ bc.n < MaxScan
  /\ \E I \in ScanInsts : \E k \in RunLengths :
       bc' = [CountInsts(bc, I, k) EXCEPT !.n = @ + 1]
  /\ UNCHANGED <<env, pm, input, mod, hist, verdict, snap>>

\* the loop reaches the terminator and run builds the call from the counts
EmitRecordBlock ==
  /\ bc.args = <<>>
  /\ LET st == CountInsts(bc, Inst("ret", FALSE, NoName, "", <<>>, NoLoc, 0), 1)
     IN bc' = [st EXCEPT !.args = RecordBlockArgs(0, st.counts)]
  /\ UNCHANGED <<env, pm, input, mod, hist, verdict, snap>>

NextCount == ScanRun \/ EmitRecordBlock

InitCount ==
  /\ pm = "custom"
  /\ \E m \in InputModules : InitWith("1", m)

SpecCount == InitCount /\ [][NextCount]_vars

(***************************************************************************)
(* A function of two blocks that already carries sentinels, in any         *)
(* arrangement, under the passes that read them.                           *)
(***************************************************************************)
DBG_VALUE == <<"llvm.", "dbg.", "value">>

\* what stands in front of the terminator of the entry block: a begin, an end,
\* a tagged load
RegionInsts ==
  {AsmCall(UNSAFE_MARKER_BEGIN, 0), AsmCall(UNSAFE_MARKER_END, 0),
   Inst("load", TRUE, NoName, "", <<Ptr(1)>>, Loc(42), 0)}

RECURSIVE RegionSeqs(_)
RegionSeqs(n) ==
  IF n = 0 THEN {<<>>} ELSE {Append(q, I) : q \in RegionSeqs(n - 1), I \in RegionInsts}

RegionBlocks ==
  {Append(q, Inst("br", FALSE, NoName, "", <<>>, NoLoc, 0)) :
     q \in UNION {RegionSeqs(n) : n \in 0..MaxRegionLen}}

\* the block the entry block branches to: a return, with nothing, one of
\* these, a debug intrinsic or a begin and an end in front of it
TailBlocks ==
  {<<Inst("ret", FALSE, NoName, "", <<>>, NoLoc, 0)>>,
   <<AsmCall(UNSAFE_MARKER_BEGIN, 0), AsmCall(UNSAFE_MARKER_END, 0),
     Inst("ret", FALSE, NoName, "", <<>>, NoLoc, 0)>>}
  \cup {<<I, Inst("ret", FALSE, NoName, "", <<>>, NoLoc, 0)>> :
          I \in RegionInsts \cup {CallTo(DBG_VALUE, <<>>, 0)}}

RegionModules ==
  {Module(<<Func(<<"f">>, FALSE, <<Numbered(b1, 0), Numbered(b2, Len(b1))>>),
            Declaration(DBG_VALUE)>>,
          Len(b1) + Len(b2) + 1) :
     b1 \in RegionBlocks, b2 \in TailBlocks}

InitRegions ==
  /\ pm = "custom"
  /\ \E m \in RegionModules : InitWith("1", m)

NextRegions ==
  \/ RunUnsafeFunctionTracker
  \/ RunUnsafeInstCounter
  \/ RunCpuCycleCount

SpecRegions == InitRegions /\ [][NextRegions]_vars

(***************************************************************************)
(* A function that calls in every way a call can be made, next to the      *)
(* definition of a runtime helper, under the default pipeline.             *)
(***************************************************************************)
LLVM_MEMCPY == <<"llvm.", "memcpy">>
HELPER == <<"helper">>

\* the front-end's calls: of an external function, of a function the module
\* defines, of an intrinsic, through a pointer, and a debug intrinsic
CallInsts ==
  {CallTo(MEMCPY, <<>>, 0), CallTo(<<"f">>, <<>>, 0), CallTo(LLVM_MEMCPY, <<>>, 0),
   Inst("call", FALSE, NoName, "", <<Ptr(3)>>, NoLoc, 0), CallTo(DBG_VALUE, <<>>, 0)}

RECURSIVE CallSeqs(_)
CallSeqs(n) ==
  IF n = 0 THEN {<<>>} ELSE {Append(q, I) : q \in CallSeqs(n - 1), I \in CallInsts}

CallBlocks ==
  {Append(q, T) : q \in UNION {CallSeqs(n) : n \in 0..MaxCalls},
                  T \in {Inst("ret", FALSE, NoName, "", <<>>, NoLoc, 0),
                         Inst("invoke", FALSE, MEMCPY, "", <<>>, NoLoc, 0)}}

\* names a runtime helper may bear
HelperNames ==
  {<<"record_">> \o HELPER, <<"__unsafe_">> \o HELPER, <<"dyn_", "mem_">> \o HELPER,
   REGISTER_UNSAFE_LINE_FN}

\* the body of the helper: a tagged load, a call of an external function
HelperBlock ==
  <<Inst("load", TRUE, NoName, "", <<Ptr(1)>>, Loc(42), 0), CallTo(MEMCPY, <<>>, 0),
    Inst("ret", FALSE, NoName, "", <<>>, NoLoc, 0)>>

CallModules ==
  {Module(<<Func(<<"f">>, FALSE, <<Numbered(bb, 0)>>),
            Func(h, FALSE, <<Numbered(HelperBlock, Len(bb))>>),
            Declaration(MEMCPY), Declaration(LLVM_MEMCPY), Declaration(DBG_VALUE)>>,
          Len(bb) + Len(HelperBlock) + 1) :
     bb \in CallBlocks, h \in HelperNames}

InitCalls ==
  /\ pm = "default"
  /\ \E m \in CallModules : InitWith("1", m)

NextCalls ==
  \/ RunInstMarker
  \/ RunDebugInfoPreserver
  \/ RunUnsafeFunctionTracker
  \/ RunUnsafeInstCounter
  \/ RunCpuCycleCount
  \/ RunExternalCallTracker
  \/ RunHeapTracker

SpecCalls == InitCalls /\ [][NextCalls]_vars

(***************************************************************************)
(* What the claims speak of.                                               *)
(***************************************************************************)
\* position of the last run of pass p, 0 when it has not run
LastRun(p) == IF Runs(p) = 0 THEN 0 ELSE MaxOf({k \in 1..Len(hist) : hist[k] = p})

\* the markers of the last InstMarker run have not met CpuCycleCount yet
MarkersPlanted == Runs("InstMarker") >= 1 /\ LastRun("InstMarker") > LastRun("CpuCycleCount")

BlocksOf(m) == [i \in 1..Len(m.funcs) |-> m.funcs[i].blocks]
AllBlocks(m) == UNION {{m.funcs[i].blocks[b] : b \in 1..Len(m.funcs[i].blocks)} : i \in 1..Len(m.funcs)}
Sentinels(bb) == SelectSeq(bb, IsSentinel)
Begins(bb) == SelectSeq(bb, IsBeginMarker)
Ends(bb) == SelectSeq(bb, IsEndMarker)

\* begin, end, begin, end, ...
Alternates(s) ==
  /\ Len(s) % 2 = 0
  /\ \A k \in 1..Len(s) : IF k % 2 = 1 THEN IsBeginMarker(s[k]) ELSE IsEndMarker(s[k])

\* C1: once InstMarker has run on the front-end's IR, every block holds as many
\* begin sentinels as end sentinels and they alternate, starting with a begin.
C1MarkerBalance ==
  Runs("InstMarker") = 1 =>
    \A bb \in AllBlocks(mod) :
      Len(Begins(bb)) = Len(Ends(bb)) /\ Alternates(Sentinels(bb))

\* a block whose unsafe instructions are apart has just been marked
C1Witness ==
  /\ hist = <<"InstMarker">>
  /\ \E bb \in AllBlocks(mod) :
       /\ Len(bb) >= 5
       /\ IsBeginMarker(bb[1]) /\ IsEndMarker(bb[Len(bb) - 1])
       /\ ~HasUnsafeMD(bb[3])

\* C2: once CpuCycleCount has run, no begin or end sentinel remains in any
\* function of the module, whatever arrangement of sentinels it found.
C2MarkerExtinction ==
  LastRun("CpuCycleCount") > LastRun("InstMarker") =>
    \A bb \in AllBlocks(mod) : Sentinels(bb) = <<>>

\* C4: a run of InstMarker on IR that already carries its markers inserts
\* nothing and leaves the instructions of every block as they were.
C4PlanterRoundTrip ==
  [][(MarkersPlanted /\ hist' = Append(hist, "InstMarker")) => BlocksOf(mod') = BlocksOf(mod)]_vars

\* C5: from the end of InstMarker to the start of CpuCycleCount every block
\* keeps its sentinels, in number and in place among the front-end's
\* instructions, whichever other passes run in between.
C5MarkerSurvival ==
  MarkersPlanted => [i \in 1..Len(snap) |-> Skeleton(mod)[i]] = snap

\* HeapTracker and ExternalCallTracker have both worked on a marked block
C5Witness ==
  /\ Len(hist) = 3 /\ hist[1] = "InstMarker"
  /\ Runs("HeapTracker") = 1 /\ Runs("ExternalCallTracker") = 1
  /\ \E bb \in AllBlocks(mod) :
       /\ Len(Sentinels(bb)) = 2
       /\ \E i \in 1..Len(bb) : bb[i].callee = DYN_UNSAFE_MEM_ACCESS_FN
       /\ \E i \in 1..Len(bb) : bb[i].callee = EXTERNAL_CALL_START_FN

\* the names of the runtime's helpers
ReservedRuntimeName(name) ==
  \/ StartsWith(name, <<"cpu_cycle_">>) \/ StartsWith(name, <<"record_">>)
  \/ StartsWith(name, <<"external_call_">>) \/ StartsWith(name, <<"__unsafe_">>)
  \/ StartsWith(name, <<"dyn_", "mem_">>)
  \/ name \in {REGISTER_UNSAFE_LINE_FN, TRACK_UNSAFE_LINE_EXECUTION_FN, PRINT_UNSAFE_COVERAGE_STATS_FN}

\* instruction i of bb follows an external_call_start call
Wrapped(bb, i) == i > 1 /\ bb[i - 1].op = "call" /\ bb[i - 1].callee = EXTERNAL_CALL_START_FN

\* C7: after the pipeline no call of a runtime helper stands between
\* external_call_start and external_call_end.
C7HelpersNotWrapped ==
  (pm = "default" /\ hist = PipelineOrder) =>
    \A bb \in AllBlocks(mod) : \A i \in 1..Len(bb) :
      (IsCallBase(bb[i]) /\ bb[i].callee # NoName /\ ReservedRuntimeName(bb[i].callee))
        => ~Wrapped(bb, i)

\* instruction k of the marked block sk is a load or a store of the front-end
\* inside a run: the sentinel nearest in front of it is a begin
InRun(sk, k) ==
  /\ IsMemInst(sk[k]) /\ IsOriginal(sk[k])
  /\ \E j \in 1..(k - 1) : IsBeginMarker(sk[j]) /\ \A l \in (j + 1)..(k - 1) : ~IsSentinel(sk[l])

PosOf(bb, id) == CHOOSE p \in 1..Len(bb) : bb[p].id = id

\* a dyn_unsafe_mem_access call with the pointer and the load flag of
\* instruction p stands in front of it, nothing of the front-end in between
UnsafeAccessRecorded(bb, p) ==
  \E j \in 1..(p - 1) :
    /\ bb[j].op = "call" /\ bb[j].callee = DYN_UNSAFE_MEM_ACCESS_FN
    /\ bb[j].args = <<bb[p].args[1], Const(IF bb[p].op = "load" THEN 1 ELSE 0)>>
    /\ \A l \in (j + 1)..(p - 1) : ~IsOriginal(bb[l])

UnsafeAccessesRecorded ==
  \A i \in 1..Len(snap) : \A b \in 1..Len(snap[i]) : \A k \in 1..Len(snap[i][b]) :
    InRun(snap[i][b], k) =>
      UnsafeAccessRecorded(mod.funcs[i].blocks[b], PosOf(mod.funcs[i].blocks[b], snap[i][b][k].id))

\* HeapTracker has run, after InstMarker and with no CpuCycleCount before it
HeapTrackerSawMarkers ==
  /\ Runs("HeapTracker") = 1
  /\ \E k \in 1..(LastRun("HeapTracker") - 1) : hist[k] = "InstMarker"
  /\ \A k \in 1..(LastRun("HeapTracker") - 1) : hist[k] # "CpuCycleCount"

\* C8 as stated: when the seven passes have run in the listed order, every load
\* and store inside a run is preceded by its dyn_unsafe_mem_access call.
C8ListedOrder == hist = PipelineOrder => UnsafeAccessesRecorded

\* C8 amended: when HeapTracker runs after InstMarker and before CpuCycleCount,
\* every load and store inside a run is preceded by a dyn_unsafe_mem_access
\* call carrying its pointer and its load flag.
C8HeapTrackerBeforeCycleCounter == HeapTrackerSawMarkers => UnsafeAccessesRecorded

\* HeapTracker has met a run that holds a store behind a load
C8Witness ==
  /\ HeapTrackerSawMarkers
  /\ \E i \in 1..Len(snap) : \E b \in 1..Len(snap[i]) : \E k \in 2..Len(snap[i][b]) :
       /\ InRun(snap[i][b], k) /\ snap[i][b][k].op = "store"
       /\ InRun(snap[i][b], k - 1) /\ snap[i][b][k - 1].op = "load"

\* a block without the ids of its instructions: an operand that is the value
\* of an instruction becomes the distance to it
Shape(bb) ==
  [i \in 1..Len(bb) |->
    [op |-> bb[i].op, callee |-> bb[i].callee, asm |-> bb[i].asm,
     args |-> [a \in 1..Len(bb[i].args) |->
                 IF bb[i].args[a].k = "val" THEN Val(i - PosOf(bb, bb[i].args[a].v))
                 ELSE bb[i].args[a]]]]

Shapes(m, n) == [i \in 1..n |-> [b \in 1..Len(m.funcs[i].blocks) |-> Shape(m.funcs[i].blocks[b])]]

\* C9: on a module that carries markers, ExternalCallTracker then HeapTracker
\* leaves every block with the same instructions in the same places as
\* HeapTracker then ExternalCallTracker.
C9TrackersCommute ==
  (MarkersPlanted /\ Runs("ExternalCallTracker") = 0 /\ Runs("HeapTracker") = 0) =>
    Shapes(HeapTrackerPass(ExternalCallTrackerPass(mod, env), env), Len(mod.funcs))
      = Shapes(ExternalCallTrackerPass(HeapTrackerPass(mod, env), env), Len(mod.funcs))

\* C3: with CARGO_PRIMARY_PACKAGE unset or different from "1", whatever passes
\* run, the module stays the module the front-end handed over.
C3SelectorOff == ~IsPrimaryPackage(env) => mod = input

\* C6: the six category arguments of an __unsafe_record_block call add up to
\* its unsafe_total argument, however long the block.
C6CategoryPartition ==
  bc.args # <<>> =>
    bc.args[4].v + bc.args[5].v + bc.args[6].v + bc.args[7].v + bc.args[8].v + bc.args[9].v
      = bc.args[3].v

\* eligible for an id: a definition, no intrinsic, no reserved name
Eligible(F) ==
  ~F.decl /\ ~StartsWith(F.name, <<"llvm.">>) /\ ~StartsWith(F.name, <<"__unsafe_">>)

EligibleIndices(m) == {i \in 1..Len(m.funcs) : Eligible(m.funcs[i])}
Rank(m, i) == Cardinality({j \in EligibleIndices(m) : j < i})
JustRan(p) == hist # <<>> /\ hist[Len(hist)] = p
RecordsFunction(I) == IsCallBase(I) /\ I.callee = RECORD_FUNCTION_FN
MetadataTables(m) == {g \in 1..Len(m.globals) : m.globals[g].name = METADATA_TABLE}

\* C10: after UnsafeFunctionTracker the eligible functions carry the ids 0, 1,
\* ..., n-1 in module order, each with its table entry and its entry call, and
\* every other function has no id, no table entry and no entry call.
C10IdDensity ==
  JustRan("UnsafeFunctionTracker") =>
    /\ \A i \in 1..Len(mod.funcs) :
         IF Eligible(mod.funcs[i])
         THEN /\ mod.funcs[i].fid = Rank(mod, i)
              /\ RecordsFunction(mod.funcs[i].blocks[1][1])
              /\ mod.funcs[i].blocks[1][1].args = <<Const(Rank(mod, i))>>
         ELSE /\ mod.funcs[i].fid = NoId
              /\ \A b \in 1..Len(mod.funcs[i].blocks) : \A k \in 1..Len(mod.funcs[i].blocks[b]) :
                   ~RecordsFunction(mod.funcs[i].blocks[b][k])
    /\ EligibleIndices(mod) # {} =>
         /\ Cardinality(MetadataTables(mod)) = 1
         /\ \A g \in MetadataTables(mod) :
              /\ Len(mod.globals[g].init) = Cardinality(EligibleIndices(mod))
              /\ \A k \in 1..Len(mod.globals[g].init) : mod.globals[g].init[k].id = k - 1
    /\ EligibleIndices(mod) = {} => MetadataTables(mod) = {}

\* ids were given in a module where a function without one stands between
\* two functions with one
C10Witness ==
  /\ JustRan("UnsafeFunctionTracker")
  /\ \E i, j, k \in 1..Len(mod.funcs) :
       /\ i < j /\ j < k
       /\ mod.funcs[i].fid = 0 /\ mod.funcs[j].fid = NoId /\ mod.funcs[k].fid = 1

RecordsBlock(I) == IsCallBase(I) /\ I.callee = RECORD_BLOCK_FN
\* an instruction UnsafeInstCounter found and was to count
CountedInst(I) == ~IsSentinel(I) /\ ~IsDbgInfoIntrinsic(I) /\ ~RecordsBlock(I)

RECURSIVE SumOf(_)
SumOf(s) == IF s = <<>> THEN 0 ELSE Head(s) + SumOf(Tail(s))

\* the total arguments of the calls in front of the terminators of F's blocks
RecordedTotals(F) == [b \in 1..Len(F.blocks) |-> F.blocks[b][Len(F.blocks[b]) - 1].args[2].v]
CountedInsts(F) == [b \in 1..Len(F.blocks) |-> Len(SelectSeq(F.blocks[b], CountedInst))]

\* C11: once UnsafeInstCounter has run, every block of a function that has an
\* id holds exactly one __unsafe_record_block call, right in front of its
\* terminator and carrying the id, and the totals of the calls add up to the
\* number of instructions of the function that are no sentinel, no debug
\* intrinsic and no such call.
C11BlockRecordTotals ==
  JustRan("UnsafeInstCounter") =>
    \A i \in 1..Len(mod.funcs) :
      (Eligible(mod.funcs[i]) /\ mod.funcs[i].fid # NoId) =>
        /\ \A b \in 1..Len(mod.funcs[i].blocks) :
             LET bb == mod.funcs[i].blocks[b]
             IN /\ Len(SelectSeq(bb, RecordsBlock)) = 1
                /\ Len(bb) >= 2 /\ RecordsBlock(bb[Len(bb) - 1])
                /\ bb[Len(bb) - 1].args[1] = Const(mod.funcs[i].fid)
        /\ SumOf(RecordedTotals(mod.funcs[i])) = SumOf(CountedInsts(mod.funcs[i]))

\* the counter has met a function of two blocks that holds sentinels, a debug
\* intrinsic and instructions inside and outside a run
C11Witness ==
  /\ JustRan("UnsafeInstCounter")
  /\ \E i \in 1..Len(mod.funcs) :
       /\ mod.funcs[i].fid # NoId /\ Len(mod.funcs[i].blocks) = 2
       /\ \E k \in 1..Len(mod.funcs[i].blocks[1]) : IsBeginMarker(mod.funcs[i].blocks[1][k])
       /\ \E k \in 1..Len(mod.funcs[i].blocks[2]) : IsDbgInfoIntrinsic(mod.funcs[i].blocks[2][k])
       /\ \E k \in 1..Len(mod.funcs[i].blocks[1]) : IsEndMarker(mod.funcs[i].blocks[1][k])
       /\ RecordedTotals(mod.funcs[i]) = <<4, 1>>

\* InstMarker, UnsafeFunctionTracker and UnsafeInstCounter have run on the
\* front-end's module, in the pipeline's order and nothing else but
\* DebugInfoPreserver
PlantedTrackedCounted ==
  \/ hist = SubSeq(PipelineOrder, 1, 4)
  \/ hist = <<"InstMarker", "UnsafeFunctionTracker", "UnsafeInstCounter">>

\* C12: for a single-block function of N instructions whose first and last
\* tagged instructions stand at p <= q in front of the terminator, InstMarker,
\* UnsafeFunctionTracker and UnsafeInstCounter leave exactly one
\* __unsafe_record_block call, with total N and unsafe_total q - p + 1.
C12ScenarioA ==
  PlantedTrackedCounted =>
    LET bb0 == input.funcs[1].blocks[1]
        bb == mod.funcs[1].blocks[1]
        p == FirstUnsafeInst(bb0)
        q == LastUnsafeInst(bb0)
    IN (p # 0 /\ q < Len(bb0)) =>
         /\ Len(SelectSeq(bb, RecordsBlock)) = 1
         /\ \A k \in 1..Len(bb) : RecordsBlock(bb[k]) =>
              /\ bb[k].args[2] = Const(Len(bb0))
              /\ bb[k].args[3] = Const(q - p + 1)

\* the whole of the reserved space of runtime-helper names
InReservedSpace(name) ==
  ReservedRuntimeName(name) \/ name \in {LINES_MODULE_CTOR, LINES_MODULE_DTOR}

\* the instructions of a block by their ids
IdsOf(bb) == [k \in 1..Len(bb) |-> bb[k].id]

\* C13: after the whole pipeline the body of every function the front-end
\* defined under a name of the reserved runtime-helper space holds the
\* instructions it held, and no other.
C13HelpersUntouched ==
  hist = PipelineOrder =>
    \A i \in 1..Len(input.funcs) :
      (~IsDeclaration(input.funcs[i]) /\ InReservedSpace(input.funcs[i].name)) =>
        \A b \in 1..Len(input.funcs[i].blocks) :
          IdsOf(mod.funcs[i].blocks[b]) = IdsOf(input.funcs[i].blocks[b])

\* the begin at j opens a run: every begin in front of it has met an end
OpensRun(bb, j) ==
  /\ IsBeginMarker(bb[j])
  /\ \A l \in 1..(j - 1) : IsBeginMarker(bb[l]) => \E x \in (l + 1)..(j - 1) : IsEndMarker(bb[x])

\* the begin at j opens a run and the end at e is the first end behind it
Matched(bb, j, e) ==
  /\ OpensRun(bb, j) /\ j < e /\ IsEndMarker(bb[e])
  /\ \A x \in (j + 1)..(e - 1) : ~IsEndMarker(bb[x])

MatchedPairs(bb) == {p \in (1..Len(bb)) \X (1..Len(bb)) : Matched(bb, p[1], p[2])}
MatchedSentinels(bb) == {p[1] : p \in MatchedPairs(bb)} \cup {p[2] : p \in MatchedPairs(bb)}

IsFence(I) == I.op = "fence"
StartsMeasurement(I) == I.op = "call" /\ I.callee = START_MEASUREMENT_FN
EndsMeasurement(I) == I.op = "call" /\ I.callee = END_MEASUREMENT_FN

\* the instructions of bb that are no matched sentinel, from position l on
RECURSIVE SurvivorsFrom(_, _)
SurvivorsFrom(bb, l) ==
  IF l > Len(bb) THEN <<>>
  ELSE (IF l \in MatchedSentinels(bb) THEN <<>> ELSE <<bb[l]>>) \o SurvivorsFrom(bb, l + 1)

\* the instructions of nb that existed before the pass whose ids start at base
RECURSIVE OlderFrom(_, _, _)
OlderFrom(nb, base, l) ==
  IF l > Len(nb) THEN <<>>
  ELSE (IF nb[l].id < base THEN <<nb[l]>> ELSE <<>>) \o OlderFrom(nb, base, l + 1)

\* the block nb a CpuCycleCount run made of bb follows the pairing rule
PairedByRule(bb, nb, base) ==
  /\ Len(SelectSeq(nb, StartsMeasurement)) = Cardinality(MatchedPairs(bb))
  /\ Len(SelectSeq(nb, EndsMeasurement)) = Cardinality(MatchedPairs(bb))
  /\ Len(SelectSeq(nb, IsFence)) = 2 * Cardinality(MatchedPairs(bb))
  /\ Len(nb) = Len(bb) + 2 * Cardinality(MatchedPairs(bb))
  /\ OlderFrom(nb, base, 1) = SurvivorsFrom(bb, 1)

CycleCounterRuns == hist' = Append(hist, "CpuCycleCount")

\* C15: CpuCycleCount pairs a begin with the first end behind it in its block,
\* ignores a begin met while a run is open, an end met while none is open and
\* a begin left open at the end of the block, block by block: it inserts two
\* fences, one start call and one end call per pair and nothing else, and
\* every ignored sentinel stays where it was.
C15PairingRule ==
  [][CycleCounterRuns =>
       \A i \in 1..Len(mod.funcs) : \A b \in 1..Len(mod.funcs[i].blocks) :
         PairedByRule(mod.funcs[i].blocks[b], mod'.funcs[i].blocks[b], mod.nextId)]_vars

\* CpuCycleCount has met a block in which a begin follows an open begin and an
\* end follows the pair's end, next to a block whose begin stays open
C15Witness ==
  /\ JustRan("CpuCycleCount")
  /\ \E i \in 1..Len(mod.funcs) :
       /\ Len(mod.funcs[i].blocks) = 2
       /\ Len(SelectSeq(mod.funcs[i].blocks[1], StartsMeasurement)) = 1
       /\ Len(Begins(mod.funcs[i].blocks[1])) = 1
       /\ Len(Ends(mod.funcs[i].blocks[1])) = 1
       /\ Len(Begins(mod.funcs[i].blocks[2])) = 1

SurvivorsBefore(bb, l) == Cardinality({x \in 1..(l - 1) : x \notin MatchedSentinels(bb)})
OlderBefore(nb, base, l) == Cardinality({x \in 1..(l - 1) : nb[x].id < base})

IsMeasurement(I) == StartsMeasurement(I) \/ EndsMeasurement(I)

\* a fence and the start call stand in nb where the begin at j stood in bb, a
\* fence and the end call where the end at e stood, and the end call takes the
\* value of that start call
RewrittenPair(bb, nb, base, j, e) ==
  \E s, t \in 2..Len(nb) :
    /\ s < t
    /\ IsFence(nb[s - 1]) /\ StartsMeasurement(nb[s]) /\ nb[s].args = <<>>
    /\ nb[s - 1].id >= base /\ nb[s].id >= base
    /\ OlderBefore(nb, base, s) = SurvivorsBefore(bb, j)
    /\ IsFence(nb[t - 1]) /\ EndsMeasurement(nb[t]) /\ nb[t].args = <<Val(nb[s].id)>>
    /\ nb[t - 1].id >= base /\ nb[t].id >= base
    /\ OlderBefore(nb, base, t) = SurvivorsBefore(bb, e)

\* start, end, start, end, ..., every end taking the value of the start in
\* front of it
MeasurementsAlternate(nb) ==
  LET ms == SelectSeq(nb, IsMeasurement)
  IN /\ Len(ms) % 2 = 0
     /\ \A k \in 1..Len(ms) :
          IF k % 2 = 1 THEN StartsMeasurement(ms[k])
          ELSE EndsMeasurement(ms[k]) /\ ms[k].args = <<Val(ms[k - 1].id)>>

\* the ids of the start calls of a block
StartValues(nb) == {nb[k].id : k \in {x \in 1..Len(nb) : StartsMeasurement(nb[x])}}

\* C14: a run of CpuCycleCount puts, for every begin paired with the first end
\* behind it in its block, a fence and then a cpu_cycle_start_measurement call
\* where the begin stood and a fence and then a cpu_cycle_end_measurement call
\* where the end stood, the end call taking the value of the pair's start
\* call; so in every block start and end calls alternate, a start first, and
\* no end call takes the value of a start call of another pair or block.
C14RewriteShape ==
  [][CycleCounterRuns =>
       \A i \in 1..Len(mod.funcs) :
         /\ \A b \in 1..Len(mod.funcs[i].blocks) :
              /\ \A p \in MatchedPairs(mod.funcs[i].blocks[b]) :
                   RewrittenPair(mod.funcs[i].blocks[b], mod'.funcs[i].blocks[b],
                                 mod.nextId, p[1], p[2])
              /\ MeasurementsAlternate(mod'.funcs[i].blocks[b])
         /\ \A b, c \in 1..Len(mod.funcs[i].blocks) :
              b # c => StartValues(mod'.funcs[i].blocks[b])
                         \cap StartValues(mod'.funcs[i].blocks[c]) = {}]_vars

\* CpuCycleCount has rewritten two pairs of one block and a pair of the next
C14Witness ==
  /\ JustRan("CpuCycleCount")
  /\ \E i \in 1..Len(mod.funcs) :
       /\ Len(mod.funcs[i].blocks) = 2
       /\ Len(SelectSeq(mod.funcs[i].blocks[1], EndsMeasurement)) = 2
       /\ Len(SelectSeq(mod.funcs[i].blocks[2], EndsMeasurement)) = 1

PlanterRuns == hist' = Append(hist, "InstMarker")

\* the sentinels of nb that the pass whose ids start at base created
PlantedBegins(nb, base) == {k \in 1..Len(nb) : IsBeginMarker(nb[k]) /\ nb[k].id >= base}
PlantedEnds(nb, base) == {k \in 1..Len(nb) : IsEndMarker(nb[k]) /\ nb[k].id >= base}

\* nb is bb with one begin and one end more, or bb itself when bb holds no
\* tagged instruction
OnePairPlanted(bb, nb, base) ==
  IF UnsafeIndices(bb) = {}
  THEN nb = bb
  ELSE /\ Len(nb) = Len(bb) + 2
       /\ Cardinality(PlantedBegins(nb, base)) = 1
       /\ Cardinality(PlantedEnds(nb, base)) = 1
       /\ IdsOf(OlderFrom(nb, base, 1)) = IdsOf(bb)

\* the end is right behind the last tagged instruction, or right in front of
\* the terminator when that is the last tagged instruction
EndPlaced(bb, nb, base) ==
  IF LastUnsafeInst(bb) < Len(bb)
  THEN PosOf(nb, bb[LastUnsafeInst(bb)].id) + 1 \in PlantedEnds(nb, base)
  ELSE Len(nb) - 1 \in PlantedEnds(nb, base)

\* the begin is right in front of the first tagged instruction
BeginPlaced(bb, nb, base) ==
  PosOf(nb, bb[FirstUnsafeInst(bb)].id) - 1 \in PlantedBegins(nb, base)

\* the begin is right in front of the first tagged instruction, or right in
\* front of the end when that instruction is the terminator
BeginPlacedOrEmptyRun(bb, nb, base) ==
  IF FirstUnsafeInst(bb) < Len(bb)
  THEN BeginPlaced(bb, nb, base)
  ELSE Len(nb) - 2 \in PlantedBegins(nb, base)

EndsWithItsTerminator(bb) ==
  /\ Len(bb) >= 1 /\ IsTerminator(bb[Len(bb)])
  /\ \A k \in 1..(Len(bb) - 1) : ~IsTerminator(bb[k])

\* C17: whatever passes have run and in whatever order, every block of every
\* function ends with its one terminator, and every function the front-end
\* handed over has the number of blocks it had.
C17TerminatorInvariant ==
  /\ \A bb \in AllBlocks(mod) : EndsWithItsTerminator(bb)
  /\ \A i \in 1..Len(input.funcs) :
       Len(mod.funcs[i].blocks) = Len(input.funcs[i].blocks)

\* three passes have worked on a block whose terminator is a tagged call of an
\* external function: InstMarker, ExternalCallTracker and one that consumes
\* the markers
C17Witness ==
  /\ Len(hist) = 3 /\ hist[1] = "InstMarker"
  /\ Runs("ExternalCallTracker") = 1
  /\ Runs("CpuCycleCount") = 1 \/ Runs("HeapTracker") = 1
  /\ \E bb \in AllBlocks(mod) :
       /\ bb[Len(bb)].op = "invoke" /\ HasUnsafeMD(bb[Len(bb)])
       /\ \A k \in 1..(Len(bb) - 1) : IsOriginal(bb[k]) => ~HasUnsafeMD(bb[k])

\* the instructions of a function in the order of its blocks
InstructionsOf(F) == FlattenBlocks(F.blocks, 1)

\* instruction k of s is tagged and stands behind a begin with no end between
TaggedInRegion(s, k) ==
  /\ HasUnsafeMD(s[k]) /\ ~IsSentinel(s[k])
  /\ \E j \in 1..(k - 1) : IsBeginMarker(s[j]) /\ \A l \in (j + 1)..(k - 1) : ~IsEndMarker(s[l])

\* the table entries that bear the id of F
EntriesOf(m, F) ==
  {e \in UNION {{m.globals[g].init[k] : k \in 1..Len(m.globals[g].init)} : g \in MetadataTables(m)} :
     e.id = F.fid}

\* C18: after UnsafeFunctionTracker the table entry of an eligible function has
\* hasUnsafeInst = 1 exactly when a tagged instruction of the function stands
\* behind a begin sentinel with no end sentinel between them, and its two
\* other fields are 0.
C18UnsafeFlag ==
  JustRan("UnsafeFunctionTracker") =>
    \A i \in 1..Len(mod.funcs) : Eligible(mod.funcs[i]) =>
      /\ Cardinality(EntriesOf(mod, mod.funcs[i])) = 1
      /\ \A e \in EntriesOf(mod, mod.funcs[i]) :
           /\ e.hasUnsafeInst \in {0, 1}
           /\ e.hasUnsafeInst = 1 <=>
                \E k \in 1..Len(InstructionsOf(mod.funcs[i])) :
                  TaggedInRegion(InstructionsOf(mod.funcs[i]), k)
           /\ e.hasUnsafeRegions = 0 /\ e.padding = 0

\* the tracker has flagged a function that holds a tagged instruction in front
\* of its first begin and another one inside the run
C18Witness ==
  /\ JustRan("UnsafeFunctionTracker")
  /\ \E i \in 1..Len(mod.funcs) :
       /\ Eligible(mod.funcs[i])
       /\ \E e \in EntriesOf(mod, mod.funcs[i]) : e.hasUnsafeInst = 1
       /\ \E k \in 1..Len(mod.funcs[i].blocks[1]) :
            /\ HasUnsafeMD(mod.funcs[i].blocks[1][k])
            /\ \A j \in 1..(k - 1) : ~IsSentinel(mod.funcs[i].blocks[1][j])

\* UnsafeFunctionTracker has run once, and UnsafeInstCounter once after it
TrackedThenCounted ==
  /\ Runs("UnsafeFunctionTracker") = 1 /\ Runs("UnsafeInstCounter") = 1
  /\ \E j, k \in 1..Len(hist) :
       j < k /\ hist[j] = "UnsafeFunctionTracker" /\ hist[k] = "UnsafeInstCounter"

\* the calls of callee in the blocks of F, as <<block, position>>
CallSites(F, callee) ==
  {<<b, k>> \in (1..Len(F.blocks)) \X (1..MaxOf({Len(F.blocks[b]) : b \in 1..Len(F.blocks)} \cup {0})) :
     k <= Len(F.blocks[b]) /\ IsCallBase(F.blocks[b][k]) /\ F.blocks[b][k].callee = callee}

\* the table has entry number i, with id i, and __unsafe_module_init hands the
\* number of its entries to __unsafe_init_metadata
TableAgrees(m, i) ==
  /\ Cardinality(MetadataTables(m)) = 1
  /\ \A g \in MetadataTables(m) :
       /\ i + 1 <= Len(m.globals[g].init) /\ m.globals[g].init[i + 1].id = i
       /\ HasFunction(m, MODULE_INIT_FN)
       /\ Cardinality(CallSites(GetFunction(m, MODULE_INIT_FN), INIT_METADATA_FN)) = 1
       /\ \A s \in CallSites(GetFunction(m, MODULE_INIT_FN), INIT_METADATA_FN) :
            GetFunction(m, MODULE_INIT_FN).blocks[s[1]][s[2]].args[2] = Const(Len(m.globals[g].init))

IdsAgree ==
  TrackedThenCounted =>
    \A i \in 1..Len(mod.funcs) : mod.funcs[i].fid # NoId =>
      /\ TableAgrees(mod, mod.funcs[i].fid)
      /\ CallSites(mod.funcs[i], RECORD_FUNCTION_FN) = {<<1, 1>>}
      /\ mod.funcs[i].blocks[1][1].args = <<Const(mod.funcs[i].fid)>>
      /\ \A s \in CallSites(mod.funcs[i], RECORD_BLOCK_FN) :
           mod.funcs[i].blocks[s[1]][s[2]].args[1] = Const(mod.funcs[i].fid)

TrackerRuns == hist' = Append(hist, "UnsafeFunctionTracker")

\* C19: once UnsafeFunctionTracker and then UnsafeInstCounter have run, for
\* every function with an id i the table's entry number i has id i and the
\* count handed to __unsafe_init_metadata is the number of entries, the
\* function's entry block starts with its one __unsafe_record_function call,
\* whose argument is i, and every __unsafe_record_block call of the function
\* has i for its first argument; and a run of UnsafeFunctionTracker on a module
\* with no eligible function leaves the module as it is.
C19IdConsistency ==
  /\ []IdsAgree
  /\ [][TrackerRuns /\ EligibleIndices(mod) = {} => mod' = mod]_vars

\* both passes have run on a module of two functions with ids, the second of
\* them with a counted block behind its entry block
C19Witness ==
  /\ TrackedThenCounted
  /\ \E i, j \in 1..Len(mod.funcs) :
       /\ mod.funcs[i].fid = 0 /\ mod.funcs[j].fid = 1
       /\ CallSites(mod.funcs[i], RECORD_BLOCK_FN) # {}
       /\ \E s \in CallSites(mod.funcs[j], RECORD_BLOCK_FN) : s[1] = 2

StartsTimer(I) == I.op = "call" /\ I.callee = EXTERNAL_CALL_START_FN
EndsTimer(I) == I.op = "call" /\ I.callee = EXTERNAL_CALL_END_FN

\* the calls of bb the claim speaks of: no terminator, the callee a function
\* the module declares, no intrinsic, not runtime-named
ExternalCalls(m, bb) ==
  {k \in 1..Len(bb) :
     /\ IsCallBase(bb[k]) /\ ~IsTerminator(bb[k])
     /\ bb[k].callee # NoName /\ HasFunction(m, bb[k].callee)
     /\ IsDeclaration(GetFunction(m, bb[k].callee))
     /\ ~IsIntrinsic(GetFunction(m, bb[k].callee))
     /\ ~IsRuntimeFunction(bb[k].callee)}

\* fence and start stand directly in front of call k; behind it and the debug
\* intrinsics that follow it stand fence and end, the end taking the start's
\* value, and then an instruction that is no debug intrinsic
TimedAround(bb, k) ==
  /\ k > 2 /\ IsFence(bb[k - 2]) /\ StartsTimer(bb[k - 1])
  /\ LET n == NextNonDebugInstruction(bb, k)
     IN /\ n # 0 /\ n + 2 <= Len(bb)
        /\ IsFence(bb[n]) /\ EndsTimer(bb[n + 1])
        /\ bb[n + 1].args = <<Val(bb[k - 1].id)>>
        /\ ~IsDbgInfoIntrinsic(bb[n + 2])

\* every external call of the block is wrapped and the block holds no other
\* start or end
WrappedOnce(m, bb) ==
  /\ \A k \in ExternalCalls(m, bb) : TimedAround(bb, k)
  /\ Cardinality({k \in 1..Len(bb) : StartsTimer(bb[k])}) = Cardinality(ExternalCalls(m, bb))
  /\ Cardinality({k \in 1..Len(bb) : EndsTimer(bb[k])}) = Cardinality(ExternalCalls(m, bb))

\* C20 as stated: after ExternalCallTracker every external call of every
\* function is wrapped once, and no other instruction is.
C20WrappingAsStated ==
  JustRan("ExternalCallTracker") =>
    \A i \in 1..Len(mod.funcs) : \A b \in 1..Len(mod.funcs[i].blocks) :
      WrappedOnce(mod, mod.funcs[i].blocks[b])

\* C20: after ExternalCallTracker, in every function that is not itself
\* runtime-named, every call that is no terminator and whose callee is a
\* declared, non-intrinsic, not runtime-named function has exactly one fence
\* and external_call_start directly in front of it and exactly one fence and
\* external_call_end in front of the next non-debug instruction behind it, the
\* end taking the start's value; terminator calls, indirect calls, calls of
\* defined functions and of intrinsics have neither; a runtime-named function
\* holds no start and no end.
C20Wrapping ==
  JustRan("ExternalCallTracker") =>
    \A i \in 1..Len(mod.funcs) : \A b \in 1..Len(mod.funcs[i].blocks) :
      IF IsRuntimeFunction(mod.funcs[i].name)
      THEN \A k \in 1..Len(mod.funcs[i].blocks[b]) :
             ~StartsTimer(mod.funcs[i].blocks[b][k]) /\ ~EndsTimer(mod.funcs[i].blocks[b][k])
      ELSE WrappedOnce(mod, mod.funcs[i].blocks[b])

\* the tracker has wrapped an external call the front-end put in front of a
\* debug intrinsic, in a block that also calls a defined function or an
\* intrinsic or through a pointer, or ends in an invoke
C20Witness ==
  /\ JustRan("ExternalCallTracker")
  /\ \E bb \in AllBlocks(mod) : \E k \in ExternalCalls(mod, bb) :
       /\ IsOriginal(bb[k]) /\ IsDbgInfoIntrinsic(bb[k + 1])
       /\ TimedAround(bb, k)
       /\ bb[Len(bb)].op = "invoke"

(***************************************************************************)
(* ExternalCallTracker on the structural anomaly of a call with no next    *)
(* instruction: blocks of calls that no terminator closes.                 *)
(***************************************************************************)
OpenBlocks == UNION {CallSeqs(n) : n \in 1..MaxCalls}

OpenModules ==
  {Module(<<Func(<<"f">>, FALSE, <<Numbered(bb, 0)>>),
            Func(h, FALSE, <<Numbered(HelperBlock, Len(bb))>>),
            Declaration(MEMCPY), Declaration(LLVM_MEMCPY), Declaration(DBG_VALUE)>>,
          Len(bb) + Len(HelperBlock) + 1) :
     bb \in OpenBlocks, h \in HelperNames}

InitOpen ==
  /\ pm = "custom"
  /\ \E m \in OpenModules : InitWith("1", m)

NextOpen == RunExternalCallTracker

SpecOpen == InitOpen /\ [][NextOpen]_vars

\* the external calls of bb behind which no instruction but debug intrinsics stands
WithoutSuccessor(m, bb) == {k \in ExternalCalls(m, bb) : NextNonDebugInstruction(bb, k) = 0}

RecordsAccess(I, ptr) == I.op = "call" /\ I.callee = DYN_MEM_ACCESS_FN /\ I.args = <<ptr>>
RecordsUnsafeAccess(I, ptr, isLoad) ==
  I.op = "call" /\ I.callee = DYN_UNSAFE_MEM_ACCESS_FN /\ I.args = <<ptr, Const(IF isLoad THEN 1 ELSE 0)>>

\* instruction k of bb stands behind a begin sentinel of bb with no end sentinel between
InOpenRegion(bb, k) ==
  \E j \in 1..(k - 1) : IsBeginMarker(bb[j]) /\ \A l \in (j + 1)..(k - 1) : ~IsEndMarker(bb[l])

MemInsts(bb) == {k \in 1..Len(bb) : IsMemInst(bb[k])}
CallsOf(bb, callee) == {k \in 1..Len(bb) : bb[k].op = "call" /\ bb[k].callee = callee}

\* the block holds one dyn_mem_access call for each load and store and one
\* dyn_unsafe_mem_access call for each load and store of a region, and no more
AccessCallsCounted(bb) ==
  /\ Cardinality(CallsOf(bb, DYN_MEM_ACCESS_FN)) = Cardinality(MemInsts(bb))
  /\ Cardinality(CallsOf(bb, DYN_UNSAFE_MEM_ACCESS_FN))
       = Cardinality({k \in MemInsts(bb) : InOpenRegion(bb, k)})

\* C22 as stated: after HeapTracker every load and store has its one
\* dyn_mem_access call directly in front of it, and those of a region have one
\* dyn_unsafe_mem_access call as well.
C22SweepsAsStated ==
  JustRan("HeapTracker") =>
    \A bb \in AllBlocks(mod) :
      /\ AccessCallsCounted(bb)
      /\ \A k \in MemInsts(bb) :
           /\ k > 1 /\ RecordsAccess(bb[k - 1], PointerOperand(bb[k]))
           /\ InOpenRegion(bb, k) =>
                \E j \in 1..(k - 1) :
                  RecordsUnsafeAccess(bb[j], PointerOperand(bb[k]), bb[k].op = "load")

\* C22: after HeapTracker every load and store outside a region has its one
\* dyn_mem_access(pointer operand) call directly in front of it and no
\* dyn_unsafe_mem_access call; every load and store behind a begin sentinel and
\* before the next end sentinel of its block has directly in front of it its
\* one dyn_mem_access(pointer operand) call and then its one
\* dyn_unsafe_mem_access(pointer operand, is_load) call, is_load true for a
\* load and false for a store; no other instruction has either call.
C22Sweeps ==
  JustRan("HeapTracker") =>
    \A bb \in AllBlocks(mod) :
      /\ AccessCallsCounted(bb)
      /\ \A k \in MemInsts(bb) :
           IF InOpenRegion(bb, k)
           THEN /\ k > 2
                /\ RecordsUnsafeAccess(bb[k - 1], PointerOperand(bb[k]), bb[k].op = "load")
                /\ RecordsAccess(bb[k - 2], PointerOperand(bb[k]))
           ELSE /\ k > 1
                /\ RecordsAccess(bb[k - 1], PointerOperand(bb[k]))

\* HeapTracker has met a block with a store in front of the region, a load
\* inside it and an external call
C22Witness ==
  /\ JustRan("HeapTracker")
  /\ \E bb \in AllBlocks(mod) : \E k, l \in MemInsts(bb) :
       /\ bb[k].op = "store" /\ ~InOpenRegion(bb, k)
       /\ bb[l].op = "load" /\ InOpenRegion(bb, l)
       /\ RecordsUnsafeAccess(bb[l - 1], PointerOperand(bb[l]), TRUE)
       /\ \E c \in 1..Len(bb) : bb[c].callee = MEMCPY

(***************************************************************************)
(* UnsafeInstCounter on functions that come with or without the            *)
(* unsafe_func_id attachment, whatever wrote it.                           *)
(***************************************************************************)
AttachmentValues == {NoId, 0, 1, UINT32_MAX}

AttachedModules ==
  {Module(NumberedFuncs(<<[l[1] EXCEPT !.fid = a], [l[2] EXCEPT !.fid = b]>>), 16) :
     l \in Layouts(2), a \in AttachmentValues, b \in AttachmentValues}

InitAttached ==
  /\ pm = "custom"
  /\ \E m \in AttachedModules : InitWith("1", m)

NextAttached == RunUnsafeInstCounter \/ RunUnsafeFunctionTracker

SpecAttached == InitAttached /\ [][NextAttached]_vars

CounterRunsNow == hist' = Append(hist, "UnsafeInstCounter")

\* function i comes out of the step as it went in
LeftAlone(i) == mod'.funcs[i] = mod.funcs[i]

\* function i comes out of the step with a __unsafe_record_block call
Counted(i) == CallSites(mod'.funcs[i], RECORD_BLOCK_FN) # {}

\* C23: a run of UnsafeInstCounter leaves a function without the attachment
\* as it is, with no __unsafe_record_block call added, and gives every function
\* it is to instrument that has the attachment its __unsafe_record_block
\* calls, whatever the id.
C23MissingId ==
  [][CounterRunsNow =>
       \A i \in 1..Len(mod.funcs) : ShouldInstrumentFunction(mod.funcs[i]) =>
         IF mod.funcs[i].fid = NoId THEN LeftAlone(i) ELSE Counted(i)]_vars

\* the same for the functions without the attachment and those with an id
\* below the largest 32-bit value
C23MissingIdBelowMax ==
  [][CounterRunsNow =>
       \A i \in 1..Len(mod.funcs) : ShouldInstrumentFunction(mod.funcs[i]) =>
         IF mod.funcs[i].fid = NoId THEN LeftAlone(i)
         ELSE mod.funcs[i].fid # UINT32_MAX => Counted(i)]_vars

(***************************************************************************)
(* DebugInfoPreserver's anchor.                                            *)
(***************************************************************************)
Anchors(m) == {g \in 1..Len(m.globals) : m.globals[g].name = COVERAGE_ANCHOR}

\* the valid debug locations of the module's instructions
ValidLocations(m) ==
  UNION {{bb[k].dl : k \in {j \in 1..Len(bb) : IsValidDebugLocation(bb[j].dl)}} : bb \in AllBlocks(m)}

\* <<function, block, position>> of every instruction of the module
InstPositions(m) ==
  UNION {UNION {{<<i, b, k>> : k \in 1..Len(m.funcs[i].blocks[b])} :
                  b \in 1..Len(m.funcs[i].blocks)} : i \in 1..Len(m.funcs)}

\* C24: after DebugInfoPreserver the node attached to the anchor global lists
\* the valid debug locations of the module and nothing else, each of them
\* once, also when two instructions share a location.
C24DistinctLocations ==
  JustRan("DebugInfoPreserver") =>
    \A g \in Anchors(mod) :
      /\ {mod.globals[g].md[k] : k \in 1..Len(mod.globals[g].md)} = ValidLocations(mod)
      /\ \A j, k \in 1..Len(mod.globals[g].md) :
           j # k => mod.globals[g].md[j] # mod.globals[g].md[k]

\* the same with one operand for every instruction that has a valid location
C24OnePerInstruction ==
  JustRan("DebugInfoPreserver") =>
    \A g \in Anchors(mod) :
      /\ {mod.globals[g].md[k] : k \in 1..Len(mod.globals[g].md)} = ValidLocations(mod)
      /\ Len(mod.globals[g].md)
           = Cardinality({p \in InstPositions(mod) :
               IsValidDebugLocation(mod.funcs[p[1]].blocks[p[2]][p[3]].dl)})

(***************************************************************************)
(* Regions as InstMarker leaves them.                                      *)
(***************************************************************************)
\* the tagged instructions of bb, the sentinels apart
TaggedInsts(bb) == {k \in 1..Len(bb) : HasUnsafeMD(bb[k]) /\ ~IsSentinel(bb[k])}

\* the begin at j and the end at l bracket a region of bb
Brackets(bb, j, l) ==
  /\ j < l /\ IsBeginMarker(bb[j]) /\ IsEndMarker(bb[l])
  /\ \A n \in (j + 1)..(l - 1) : ~IsSentinel(bb[n])

\* C25: after one run of InstMarker every tagged instruction lies between a
\* begin sentinel and its end sentinel in its block, and the first and the
\* last instruction between the two carry unsafe_inst.
C25RegionMembership ==
  (JustRan("InstMarker") /\ Runs("InstMarker") = 1) =>
    \A bb \in AllBlocks(mod) :
      /\ \A k \in TaggedInsts(bb) : \E j, l \in 1..Len(bb) : Brackets(bb, j, l) /\ j < k /\ k < l
      /\ \A j, l \in 1..Len(bb) : Brackets(bb, j, l) =>
           /\ j + 1 < l
           /\ HasUnsafeMD(bb[j + 1]) /\ HasUnsafeMD(bb[l - 1])

\* the same with the terminator left aside: it lies behind the end sentinel,
\* and the region in front of it may end with an instruction that has no tag
\* or hold no instruction at all
C25RegionMembershipButTerminator ==
  (JustRan("InstMarker") /\ Runs("InstMarker") = 1) =>
    \A bb \in AllBlocks(mod) :
      /\ \A k \in TaggedInsts(bb) :
           k < Len(bb) => \E j, l \in 1..Len(bb) : Brackets(bb, j, l) /\ j < k /\ k < l
      /\ \A j, l \in 1..Len(bb) : Brackets(bb, j, l) =>
           \/ Len(bb) \in TaggedInsts(bb) /\ l = Len(bb) - 1
           \/ j + 1 < l /\ HasUnsafeMD(bb[j + 1]) /\ HasUnsafeMD(bb[l - 1])

(***************************************************************************)
(* Blocks that start with phi instructions, tagged or not, in a function   *)
(* whose entry block branches to them; all passes.                         *)
(***************************************************************************)
PhiInsts ==
  {Inst("phi", TRUE, NoName, "", <<>>, Loc(41), 0),
   Inst("phi", FALSE, NoName, "", <<>>, NoLoc, 0)}

RECURSIVE PhiSeqs(_)
PhiSeqs(n) ==
  IF n = 0 THEN {<<>>} ELSE {Append(q, I) : q \in PhiSeqs(n - 1), I \in PhiInsts}

PhiBlocks ==
  {p \o q \o <<Inst("ret", FALSE, NoName, "", <<>>, NoLoc, 0)>> :
     p \in UNION {PhiSeqs(n) : n \in 1..MaxPhis}, q \in UNION {InstSeqs(n) : n \in 0..1}}

PhiModules ==
  {Module(<<Func(<<"f">>, FALSE,
                 <<Numbered(<<Inst("br", FALSE, NoName, "", <<>>, NoLoc, 0)>>, 0), Numbered(bb, 1)>>),
            Declaration(MEMCPY)>>,
          Len(bb) + 4) :
     bb \in PhiBlocks}

InitPhi == \E m \in PhiModules : InitWith("1", m)

SpecPhi == InitPhi /\ [][Next]_vars

IsPhi(I) == I.op = "phi"

\* the phi instructions of bb stand in front of all its other instructions
PhisFirst(bb) == \A k \in 1..Len(bb) : IsPhi(bb[k]) => \A j \in 1..(k - 1) : IsPhi(bb[j])

\* C26: whatever passes have run, in every block the phi instructions stand
\* in front of every other instruction.
C26PhiGrouping == \A bb \in AllBlocks(mod) : PhisFirst(bb)

\* the same for the modules in which no phi carries unsafe_inst
C26PhiGroupingUntagged ==
  (\A bb \in AllBlocks(input) : \A k \in 1..Len(bb) : IsPhi(bb[k]) => ~HasUnsafeMD(bb[k]))
    => C26PhiGrouping

(***************************************************************************)
(* Cycle and external-call measurements of one region.                     *)
(***************************************************************************)
\* InstMarker ran once, and CpuCycleCount and ExternalCallTracker both ran behind it
MeasuredBothWays ==
  /\ Runs("InstMarker") = 1 /\ Runs("CpuCycleCount") = 1 /\ Runs("ExternalCallTracker") = 1
  /\ LastRun("InstMarker") < LastRun("CpuCycleCount")
  /\ LastRun("InstMarker") < LastRun("ExternalCallTracker")

\* the instruction with this id stood in a region when InstMarker had run:
\* behind a begin sentinel and in front of its end sentinel
StoodInRegion(sk, id) ==
  \E p \in 1..Len(sk) :
    /\ sk[p].id = id /\ InOpenRegion(sk, p)
    /\ \E l \in (p + 1)..Len(sk) : IsEndMarker(sk[l])

\* around call k of bb: cycle start, external start, the call, external end,
\* cycle end, the ends taking the values of their starts, and no other cycle
\* measurement call in between
Nested(bb, k) ==
  \E a, b, c, d \in 1..Len(bb) :
    /\ a < b /\ b < k /\ k < c /\ c < d
    /\ StartsMeasurement(bb[a]) /\ StartsTimer(bb[b])
    /\ EndsTimer(bb[c]) /\ bb[c].args = <<Val(bb[b].id)>>
    /\ EndsMeasurement(bb[d]) /\ bb[d].args = <<Val(bb[a].id)>>
    /\ \A n \in (a + 1)..(d - 1) : ~StartsMeasurement(bb[n]) /\ ~EndsMeasurement(bb[n])
    /\ \A n \in (b + 1)..(c - 1) : n # k => ~StartsTimer(bb[n]) /\ ~EndsTimer(bb[n])

\* the calls of an external function the front-end put in block b of function i
\* that stood in a region
RegionCalls(i, b) ==
  {k \in 1..Len(mod.funcs[i].blocks[b]) :
     /\ mod.funcs[i].blocks[b][k].op = "call" /\ mod.funcs[i].blocks[b][k].callee = MEMCPY
     /\ IsOriginal(mod.funcs[i].blocks[b][k])
     /\ StoodInRegion(snap[i][b], mod.funcs[i].blocks[b][k].id)}

\* C27: once CpuCycleCount and ExternalCallTracker have both run behind
\* InstMarker, in either order, every call of an external function that stood
\* in a region has its external_call_start and external_call_end inside the
\* cpu_cycle_start_measurement and cpu_cycle_end_measurement of that region:
\* cycle start, external start, the call, external end, cycle end.
C27Nesting ==
  MeasuredBothWays =>
    \A i \in 1..Len(input.funcs) : \A b \in 1..Len(input.funcs[i].blocks) :
      \A k \in RegionCalls(i, b) : Nested(mod.funcs[i].blocks[b], k)

\* ExternalCallTracker ran before CpuCycleCount on a region whose last
\* instruction is the external call, a load in front of it
C27Witness ==
  /\ MeasuredBothWays /\ LastRun("ExternalCallTracker") < LastRun("CpuCycleCount")
  /\ \E k \in RegionCalls(1, 1) :
       /\ Nested(mod.funcs[1].blocks[1], k)
       /\ \E j \in 1..(k - 1) : mod.funcs[1].blocks[1][j].op = "load"
       /\ \A j \in (k + 1)..Len(mod.funcs[1].blocks[1]) : ~IsOriginal(mod.funcs[1].blocks[1][j])
                                                             \/ IsTerminator(mod.funcs[1].blocks[1][j])

(***************************************************************************)
(* Where the bookkeeping calls stand.                                      *)
(***************************************************************************)
\* InstMarker, UnsafeFunctionTracker and UnsafeInstCounter ran once each, in this order
PlantedTrackedThenCounted ==
  /\ Runs("InstMarker") = 1 /\ TrackedThenCounted
  /\ LastRun("InstMarker") < LastRun("UnsafeFunctionTracker")

\* instruction k of bb stands behind a cpu_cycle_start_measurement call with
\* no cpu_cycle_end_measurement call between
InMeasurement(bb, k) ==
  \E a \in 1..(k - 1) :
    StartsMeasurement(bb[a]) /\ \A n \in (a + 1)..(k - 1) : ~EndsMeasurement(bb[n])

BookkeepingOutside(bb) ==
  \A k \in 1..Len(bb) :
    /\ RecordsFunction(bb[k]) =>
         /\ \A j \in 1..(k - 1) : ~IsSentinel(bb[j])
         /\ ~InMeasurement(bb, k)
    /\ RecordsBlock(bb[k]) =>
         /\ \A j \in (k + 1)..Len(bb) : ~IsSentinel(bb[j])
         /\ ~InOpenRegion(bb, k)
         /\ ~InMeasurement(bb, k)

\* C28: once InstMarker, UnsafeFunctionTracker and UnsafeInstCounter have run
\* in this order, in every block the __unsafe_record_function call stands in
\* front of every sentinel and the __unsafe_record_block call behind every
\* sentinel, outside every region, and neither stands between the
\* cpu_cycle_start_measurement and cpu_cycle_end_measurement calls that
\* CpuCycleCount puts at the sentinels afterwards.
C28BookkeepingOutside ==
  (PlantedTrackedThenCounted /\ Runs("CpuCycleCount") <= 1
     /\ (Runs("CpuCycleCount") = 1 => LastRun("CpuCycleCount") > LastRun("UnsafeInstCounter")))
    => \A bb \in AllBlocks(mod) : BookkeepingOutside(bb)

\* the pipeline has come past CpuCycleCount on a block whose region ended
\* directly in front of a tagged terminator
C28Witness ==
  /\ PlantedTrackedThenCounted /\ JustRan("CpuCycleCount")
  /\ \E bb \in AllBlocks(mod) :
       /\ RecordsFunction(bb[1])
       /\ HasUnsafeMD(bb[Len(bb)])
       /\ \E k \in 1..Len(bb) :
            RecordsBlock(bb[k]) /\ k > 1 /\ EndsMeasurement(bb[k - 1]) /\ k + 1 = Len(bb)

(***************************************************************************)
(* What a pass answers and what it did.                                    *)
(***************************************************************************)
\* a pass has run in this step and answered that all analyses are preserved
AnswersAllPreserved == hist' # hist /\ verdict' = "all"

\* the module apart from the model's counter of instruction ids
Content(m) == [m EXCEPT !.nextId = 0]

\* C29: a pass that answers 'all analyses preserved' has left the module
\* exactly as it received it.
C29VerdictFaithful == [][AnswersAllPreserved => Content(mod') = Content(mod)]_vars

\* the same for the three passes that answer from what they inserted
C29VerdictFaithfulOfThree ==
  [][(AnswersAllPreserved
        /\ hist'[Len(hist')] \in {"InstMarker", "UnsafeFunctionTracker", "UnsafeInstCounter"})
      => Content(mod') = Content(mod)]_vars

(***************************************************************************)
(* Tagged loads of several files and lines, under InstMarker and           *)
(* DynamicLineCount.                                                       *)
(***************************************************************************)
FileNames ==
  {SrcFile, <<"c", ":", "/", "a", ".", "r", "s">>, <<"a", ":", "1", ".", "r", "s">>}
LineNumbers == {7, 42}

LocAt(file, line) ==
  [present |-> TRUE, scope |-> TRUE, hasFile |-> TRUE, file |-> file, line |-> line, col |-> 5]

LineInsts ==
  {Inst("load", TRUE, NoName, "", <<Ptr(1)>>, LocAt(file, line), 0) :
     file \in FileNames, line \in LineNumbers}

RECURSIVE LineSeqs(_)
LineSeqs(n) ==
  IF n = 0 THEN {<<>>} ELSE {Append(q, I) : q \in LineSeqs(n - 1), I \in LineInsts}

LineBlocks ==
  {Append(q, Inst("ret", FALSE, NoName, "", <<>>, NoLoc, 0)) :
     q \in UNION {LineSeqs(n) : n \in 1..MaxTagged}}

LineModules ==
  {Module(<<Func(<<"f">>, FALSE, <<Numbered(bb, 0)>>)>>, Len(bb) + 3) : bb \in LineBlocks}

InitLines ==
  /\ pm = "custom"
  /\ \E m \in LineModules : InitWith("1", m)

NextLines == RunInstMarker \/ RunDynamicLineCount

SpecLines == InitLines /\ [][NextLines]_vars

\* the <<line, file>> arguments of the track_unsafe_line_execution calls of the module
TrackedPairs(m) ==
  UNION {{bb[k].args : k \in CallsOf(bb, TRACK_UNSAFE_LINE_EXECUTION_FN)} : bb \in AllBlocks(m)}

\* the register_unsafe_line calls of unsafe_lines_module_ctor with these arguments
Registrations(m, pair) ==
  IF ~HasFunction(m, LINES_MODULE_CTOR) THEN {}
  ELSE {k \in CallsOf(GetFunction(m, LINES_MODULE_CTOR).blocks[1], REGISTER_UNSAFE_LINE_FN) :
          GetFunction(m, LINES_MODULE_CTOR).blocks[1][k].args = pair}

RegisteredPairs(m) ==
  IF ~HasFunction(m, LINES_MODULE_CTOR) THEN {}
  ELSE {GetFunction(m, LINES_MODULE_CTOR).blocks[1][k].args :
          k \in CallsOf(GetFunction(m, LINES_MODULE_CTOR).blocks[1], REGISTER_UNSAFE_LINE_FN)}

RoundTrip(m) ==
  /\ \A pair \in TrackedPairs(m) : Cardinality(Registrations(m, pair)) = 1
  /\ RegisteredPairs(m) \subseteq TrackedPairs(m)

\* C30: after DynamicLineCount every tracked <<line, file>> has exactly one
\* register_unsafe_line call with the same line and file in
\* unsafe_lines_module_ctor, whatever the file name, and the constructor
\* registers nothing that is not tracked.
C30RegistrationRoundTrip ==
  (JustRan("DynamicLineCount") /\ Runs("DynamicLineCount") = 1) => RoundTrip(mod)

\* the same for the modules whose file names hold no ':'
C30RoundTripWithoutColon ==
  (\A bb \in AllBlocks(input) : \A k \in 1..Len(bb) :
      bb[k].dl.present => \A c \in 1..Len(bb[k].dl.file) : bb[k].dl.file[c] # ":")
    => C30RegistrationRoundTrip

====
